---- MODULE Spec2Model ----
(***************************************************************************)
(* Model of the core of brain-sdk:                                         *)
(*   - brain::utils::RingBuffer      (src/unnamed/part_007, 151-224)       *)
(*   - brain::io::MidiParser         (src/lib/brain-io/midi-parser.cpp)    *)
(*   - brain::utils::MidiToCV        (src/lib/brain-utils/midi-to-cv.cpp)  *)
(* Specifications:                                                         *)
(*   Spec       RingBuffer, every call executed as one step, init() on a   *)
(*              buffer in use included                                     *)
(*   SpecConc   RingBuffer, one producer and one consumer interleaved at   *)
(*              the granularity of the statements of write_byte/read_byte, *)
(*              on one CPU or on two (stores waiting in store buffers)     *)
(*   SpecParser MidiParser fed byte by byte through parse(), with reset(), *)
(*              set_channel() and set_omni() called at any point           *)
(*   SpecRegister  MidiParser as constructed, fed through parse(), with    *)
(*              reset() and the five callback setters called at any point  *)
(*   SpecBend   MidiParser fed one pitch-bend message, all data bytes      *)
(*   SpecUart   MidiParser fed through process_uart(), the input split in  *)
(*              every way into calls, with UART error reports              *)
(*   SpecConv   MidiToCV note_on / note_off / reset_note_stack with a few  *)
(*              notes and velocities                                       *)
(*   SpecFill   MidiToCV with keys pressed upwards until the note stack    *)
(*              is full                                                    *)
(*   SpecKeys   SpecFill with reset_note_stack() called at any point       *)
(*   SpecRelease  MidiToCV with a few keys pressed upwards, any held key   *)
(*              released or pressed again                                  *)
(*   SpecPitch  MidiToCV with one key at a time, every note 0..127         *)
(*   SpecModes  MidiToCV with two keys, set_mode(), control_change(),      *)
(*              enable_cv(), disable_cv(), set_gate(), set_pitch_channel(),*)
(*              the user callback setters and init() called again, the     *)
(*              other calls interleaved with its wait                      *)
(*   SpecPending  MidiParser polled through process_uart() with a note-on  *)
(*              status byte, a data byte and a real-time byte              *)
(*   SpecInterrupt  MidiParser fed note-on and note-off status bytes and   *)
(*              data bytes, a message cut short by the next one included   *)
(*   SpecUnsupported  MidiParser fed status bytes of unsupported types     *)
(*   SpecResync MidiParser fed every kind of byte, with reset()            *)
(*   SpecOverflow  MidiParser polled through process_uart() with runs of   *)
(*              up to 121 bytes in one call                                *)
(*   SpecChannel  MidiToCV receiving note messages through update(), with  *)
(*              set_midi_channel() called at any point                     *)
(***************************************************************************)
EXTENDS Integers, Sequences, FiniteSets, TLC

VARIABLES
    \* ---- RingBuffer fields (ringbuffer.h 19-22)
    buffer_size_,       \* uint16_t buffer_size_
    data_buffer_,       \* uint8_t* data_buffer_ : [0..buffer_size_-1 -> byte]
    read_index_,        \* volatile uint16_t read_index_
    write_index_,       \* volatile uint16_t write_index_
    \* ---- the last completed call: name, argument, return value, out-param
    last,
    \* ---- positions of the two execution contexts (SpecConc only)
    wpc, wdata,         \* producer: statement it is at, byte being written
    rpc, rdata,         \* consumer: statement it is at, byte it has loaded
    wsb, rsb,           \* the stores of the producer's and of the
                        \* consumer's CPU that have not reached memory
    \* ---- history (not program state)
    accepted,           \* bytes whose write_byte published them, in order
    delivered,          \* bytes taken out by read_byte, in order
    peeks,              \* bytes returned by the successful peeks since the
                        \* last successful read_byte (the last MaxPeeks)
    \* ---- MidiParser fields (part_002 185-204)
    state_,             \* State state_ : "Idle", "AwaitData1", "AwaitData2"
    running_status_,    \* uint8_t running_status_
    current_status_,    \* uint8_t current_status_
    data_,              \* uint8_t data_[2]
    expected_data_bytes_,
    channel_filter_,    \* uint8_t channel_filter_
    omni_mode_,         \* bool omni_mode_
    callbacks,          \* the callback pointers that are not nullptr
    \* ---- the callbacks invoked by the last call, in order
    events,
    \* ---- history of the byte stream (not program state)
    rs_S,               \* last channel status byte fed since construction,
                        \* reset() or a system-common byte; 0 if none
    rs_n,               \* data bytes fed since rs_S: 0, 1, 2, then 3, 4
                        \* alternating for the later pairs
    rs_prev,            \* the data byte that opened the current pair
    rs_rt,              \* a real-time byte was fed inside the current
                        \* message (after its status byte or first data
                        \* byte, before its last data byte)
    rs_cut,             \* why rs_S is 0 (construction, reset(), a
                        \* system-common byte) and whether that cut a
                        \* message short; by = "none" while rs_S # 0
    \* ---- MidiParser UART input (part_002 196-197)
    uart_initialized_,  \* bool uart_initialized_
    \* ---- history of the input (not program state), kept when recording
    recording,          \* number of entries of the input that stream and
                        \* log are kept for (0: no history is kept)
    stream,             \* what was handed to the parser, in order of
                        \* reception: bytes, and cuts (a UART error report
                        \* or a reset() call)
    log,                \* every callback invoked, in order
    \* ---- MidiToCV fields (part_004 68-85)
    mode_,              \* Mode mode_
    cv_enabled_,        \* bool cv_enabled_
    cv_channel_,        \* AudioCvOutChannel cv_channel_ : "A" or "B"
    cv_other_channel_,  \* AudioCvOutChannel cv_other_channel_
    midi_channel_,      \* uint8_t midi_channel_
    gate_on_,           \* bool gate_on_ (the level last set on gate_)
    note_stack_,        \* NoteVelocity note_stack_[kNoteStackSize]
    current_stack_size_,
    last_note_,         \* NoteVelocity last_note_
    modwheel_value_,    \* uint8_t modwheel_value_
    user_callbacks,     \* note_on_callback_ / note_off_callback_ that are
                        \* not nullptr
    dac,                \* the voltage last written to each channel of dac_
    out,                \* what the last converter call wrote and invoked,
                        \* in order: DAC writes, gate level, user callback
    \* ---- history (not program state)
    held,               \* the notes held, in the order they were pressed,
                        \* as the key events define them
    \* ---- position of a MidiToCV::init call
    init_pc,            \* "idle", or "sleep": the call waits in
                        \* sleep_ms(200) (midi-to-cv.cpp 15)
    init_cv_channel     \* the cv_channel argument of the waiting call

rbVars   == <<buffer_size_, data_buffer_, read_index_, write_index_>>
pcVars   == <<wpc, wdata, rpc, rdata, wsb, rsb>>
histVars == <<accepted, delivered, peeks>>
parseVars == <<state_, running_status_, current_status_, data_,
               expected_data_bytes_>>
cfgVars  == <<channel_filter_, omni_mode_, callbacks>>
rsVars   == <<rs_S, rs_n, rs_prev, rs_rt, rs_cut>>
uartVars == <<uart_initialized_, recording, stream, log>>
midiVars == <<parseVars, cfgVars, events, rsVars, uartVars>>
initVars == <<init_pc, init_cv_channel>>
convVars == <<mode_, cv_enabled_, cv_channel_, cv_other_channel_,
               midi_channel_, gate_on_, note_stack_, current_stack_size_,
               last_note_, modwheel_value_, user_callbacks, dac, out, held,
               initVars>>
vars     == <<rbVars, last, pcVars, histVars, midiVars, convVars>>

----------------------------------------------------------------------------
(* Bounds of the model *)

\* largest capacity handed to RingBuffer::init
MaxCap == 4
\* largest byte value written into the ring buffer
MaxByte == 1
\* number of bytes the producer may publish in one behaviour
MaxWrites == 5
\* number of remembered peeks
MaxPeeks == 2
\* number of stores a store buffer holds (a CPU whose buffer is full waits
\* for a store to drain before it makes the next one)
MaxStores == 2
\* number of entries (bytes and error reports) handed to the parser in one
\* behaviour of SpecUart
MaxStream == 4
\* number of bytes handed to the parser in one behaviour of SpecInterrupt:
\* a message cut short after its first data byte, the three bytes of the
\* message that follows it, and one byte before or after them
MaxInterrupt == 6
\* number of entries the UART hands out during one process_uart() call
MaxChunk == 4

\* uint8_t
U8Max == 255

ByteVals == 0..MaxByte
\* "no byte": an out-parameter that was not written, an absent argument
NoByte   == U8Max + 1
Caps     == 1..MaxCap

\* uint16_t arithmetic of the indices
U16(x) == x % 65536

----------------------------------------------------------------------------
(* Sequence helpers *)

IsPrefix(s, t) == /\ Len(s) <= Len(t)
                  /\ \A i \in 1..Len(s) : s[i] = t[i]

\* SeqFrom(t, k): the suffix of t that starts after its first k elements
SeqFrom(t, k) == IF k >= Len(t) THEN << >> ELSE SubSeq(t, k + 1, Len(t))

\* s with x appended, keeping the last MaxPeeks elements
Remember(s, x) == IF Len(s) < MaxPeeks THEN Append(s, x)
                  ELSE Append(Tail(s), x)

----------------------------------------------------------------------------
(* RingBuffer: status queries (pure) *)

\* is_empty with an ordering test in place of the equality
is_empty_ordered == read_index_ >= write_index_

\* RingBuffer::is_empty
is_empty == read_index_ = write_index_

\* is_full without the wrap-around of write_index_ + 1
is_full_nomod == (write_index_ + 1) = read_index_

\* RingBuffer::is_full (write_index_ + 1 is computed in int: no 16-bit wrap)
is_full == ((write_index_ + 1) % buffer_size_) = read_index_

\* number of slots between read_index_ and write_index_
Stored == (write_index_ - read_index_ + buffer_size_) % buffer_size_

\* the bytes in the slots read_index_ .. write_index_-1, oldest first
Contents == [i \in 1..Stored |->
                data_buffer_[(read_index_ + i - 1) % buffer_size_]]

\* accepted but not yet delivered, counted on the history
Count == Len(accepted) - Len(delivered)

Call(op, arg, ret, data) == [op |-> op, arg |-> arg, ret |-> ret, data |-> data]

----------------------------------------------------------------------------
(* MidiParser (src/lib/brain-io/midi-parser.cpp, declarations part_002)     *)

kNoteOffMask == 128
kNoteOnMask == 144
kControlChangeMask == 176
kPitchBendMask == 224
kChannelMask == 15
kStatusMask == 240
kRealtimeMin == 248
kSystemCommonMin == 240
kSystemCommonMax == 247
kBufferSize == 120

RECURSIVE BitAnd(_, _)
\* a & b on non-negative integers
BitAnd(a, b) == IF a = 0 \/ b = 0 THEN 0
                ELSE (a % 2) * (b % 2) + 2 * BitAnd(a \div 2, b \div 2)

RECURSIVE BitOr(_, _)
\* a | b on non-negative integers
BitOr(a, b) == IF a = 0 THEN b
               ELSE IF b = 0 THEN a
               ELSE (IF a % 2 = 1 \/ b % 2 = 1 THEN 1 ELSE 0)
                    + 2 * BitOr(a \div 2, b \div 2)

\* static_cast<int16_t>(x)
I16(x) == LET m == x % 65536 IN IF m >= 32768 THEN m - 65536 ELSE m

is_status_byte(byte) == BitAnd(byte, 128) # 0
is_data_byte(byte) == BitAnd(byte, 128) = 0
\* the real-time test with the lower bound excluded
is_realtime_byte_above(byte) == byte > kRealtimeMin
is_realtime_byte(byte) == byte >= kRealtimeMin
\* the system-common test with the lower bound excluded
is_system_common_byte_above(byte) ==
    byte > kSystemCommonMin /\ byte <= kSystemCommonMax
is_system_common_byte(byte) ==
    byte >= kSystemCommonMin /\ byte <= kSystemCommonMax
get_status_channel(status) == BitAnd(status, kChannelMask)
get_status_type(status) == BitAnd(status, kStatusMask)

\* MidiParser::get_expected_data_bytes
get_expected_data_bytes(status) ==
    IF get_status_type(status) \in
          {kNoteOnMask, kNoteOffMask, kControlChangeMask, kPitchBendMask}
    THEN 2 ELSE 0

\* should_process_channel comparing the wire channel itself with the filter
should_process_channel_wire(messageChannel) ==
    IF omni_mode_ THEN TRUE
    ELSE messageChannel = channel_filter_

\* MidiParser::should_process_channel
should_process_channel(messageChannel) ==
    IF omni_mode_ THEN TRUE
    ELSE (messageChannel + 1) = channel_filter_

CallbackNames ==
    {"note_on", "note_off", "control_change", "pitch_bend", "realtime"}

\* one invocation of a callback: which one, its arguments, its channel
Ev(cb, a, b, ch) == [cb |-> cb, a |-> a, b |-> b, ch |-> ch]

\* the invocation, if that callback pointer is set
Invoke(cb, a, b, ch) == IF cb \in callbacks THEN <<Ev(cb, a, b, ch)>> ELSE << >>

\* the pitch-bend value with the subtraction made in uint16_t
pitch_bend_value_u16(lsb, msb) ==
    LET bend_value == U16(BitOr(U16(msb) * 128, lsb))
    IN  U16(bend_value - 8192)

\* process_message, case kPitchBendMask: the value handed to the callback
pitch_bend_value(lsb, msb) ==
    LET bend_value == U16(BitOr(U16(msb) * 128, lsb))
    IN  I16(I16(bend_value) - 8192)

\* process_message without the velocity test of the note-on case
process_message_novel0(status, data) ==
    LET status_type      == get_status_type(status)
        message_channel  == get_status_channel(status)
        callback_channel == (message_channel + 1) % (U8Max + 1)
    IN  IF ~should_process_channel(message_channel) THEN << >>
        ELSE IF status_type = kNoteOnMask
             THEN Invoke("note_on", data[0], data[1], callback_channel)
        ELSE IF status_type = kNoteOffMask
             THEN Invoke("note_off", data[0], data[1], callback_channel)
        ELSE IF status_type = kControlChangeMask
             THEN Invoke("control_change", data[0], data[1], callback_channel)
        ELSE IF status_type = kPitchBendMask
             THEN Invoke("pitch_bend", pitch_bend_value(data[0], data[1]),
                         NoByte, callback_channel)
        ELSE << >>

\* MidiParser::process_message with current_status_ = status, data_ = data:
\* the callbacks it invokes
process_message(status, data) ==
    LET status_type      == get_status_type(status)
        message_channel  == get_status_channel(status)
        callback_channel == (message_channel + 1) % (U8Max + 1)
    IN  IF ~should_process_channel(message_channel) THEN << >>
        ELSE IF status_type = kNoteOnMask
             THEN IF data[1] = 0
                  THEN Invoke("note_off", data[0], data[1], callback_channel)
                  ELSE Invoke("note_on", data[0], data[1], callback_channel)
        ELSE IF status_type = kNoteOffMask
             THEN Invoke("note_off", data[0], data[1], callback_channel)
        ELSE IF status_type = kControlChangeMask
             THEN Invoke("control_change", data[0], data[1], callback_channel)
        ELSE IF status_type = kPitchBendMask
             THEN Invoke("pitch_bend", pitch_bend_value(data[0], data[1]),
                         NoByte, callback_channel)
        ELSE << >>

\* MidiParser::handle_realtime_byte
handle_realtime_byte(byte) == Invoke("realtime", byte, NoByte, NoByte)

\* a reset that keeps the running status
reset_fields_keep_running ==
    /\ state_' = "Idle"
    /\ UNCHANGED running_status_
    /\ current_status_' = 0
    /\ data_' = [i \in {0, 1} |-> 0]
    /\ expected_data_bytes_' = 0

\* the assignments of MidiParser::reset
reset_fields ==
    /\ state_' = "Idle"
    /\ running_status_' = 0
    /\ current_status_' = 0
    /\ data_' = [i \in {0, 1} |-> 0]
    /\ expected_data_bytes_' = 0

\* a channel status byte that is dropped when its channel is filtered out
parse_status_byte_filtered(byte) ==
    IF should_process_channel(get_status_channel(byte))
    THEN /\ current_status_' = byte
         /\ running_status_' = byte
         /\ expected_data_bytes_' = get_expected_data_bytes(byte)
         /\ UNCHANGED data_
         /\ IF get_expected_data_bytes(byte) = 0
            THEN /\ events' = process_message(byte, data_)
                 /\ state_' = "Idle"
            ELSE /\ events' = << >>
                 /\ state_' = "AwaitData1"
    ELSE /\ events' = << >>
         /\ UNCHANGED parseVars

\* a channel status byte that is only taken in Idle
parse_status_byte_idle(byte) ==
    IF state_ # "Idle"
    THEN /\ events' = << >>
         /\ UNCHANGED parseVars
    ELSE /\ current_status_' = byte
         /\ running_status_' = byte
         /\ expected_data_bytes_' = get_expected_data_bytes(byte)
         /\ UNCHANGED data_
         /\ IF get_expected_data_bytes(byte) = 0
            THEN /\ events' = process_message(byte, data_)
                 /\ state_' = "Idle"
            ELSE /\ events' = << >>
                 /\ state_' = "AwaitData1"

\* a channel status byte that is skipped when its type has no data bytes
parse_status_byte_skip(byte) ==
    IF get_expected_data_bytes(byte) = 0
    THEN /\ events' = << >>
         /\ UNCHANGED parseVars
    ELSE /\ current_status_' = byte
         /\ running_status_' = byte
         /\ expected_data_bytes_' = get_expected_data_bytes(byte)
         /\ UNCHANGED data_
         /\ events' = << >>
         /\ state_' = "AwaitData1"

\* a channel status byte that takes over the first data byte of the
\* message it interrupts
parse_status_byte_keep(byte) ==
    /\ current_status_' = byte
    /\ running_status_' = byte
    /\ expected_data_bytes_' = get_expected_data_bytes(byte)
    /\ UNCHANGED data_
    /\ IF get_expected_data_bytes(byte) = 0
       THEN /\ events' = process_message(byte, data_)
            /\ state_' = "Idle"
       ELSE /\ events' = << >>
            /\ state_' = IF state_ = "AwaitData2" THEN "AwaitData2"
                         ELSE "AwaitData1"

\* parse, 69-82: a channel status byte
parse_status_byte(byte) ==
    /\ current_status_' = byte
    /\ running_status_' = byte
    /\ expected_data_bytes_' = get_expected_data_bytes(byte)
    /\ UNCHANGED data_
    /\ IF get_expected_data_bytes(byte) = 0
       THEN /\ events' = process_message(byte, data_)
            /\ state_' = "Idle"
       ELSE /\ events' = << >>
            /\ state_' = "AwaitData1"

\* the Idle case with the first data byte of a running-status message
\* taken as if the status byte had just been received
parse_data_idle_await1(byte) ==
    IF running_status_ # 0
    THEN /\ current_status_' = running_status_
         /\ expected_data_bytes_' = get_expected_data_bytes(running_status_)
         /\ data_' = [data_ EXCEPT ![0] = byte]
         /\ UNCHANGED running_status_
         /\ events' = << >>
         /\ state_' = "AwaitData1"
    ELSE /\ events' = << >>
         /\ UNCHANGED parseVars

\* the Idle case without the test for an established running status
parse_data_idle_any(byte) ==
    /\ current_status_' = running_status_
    /\ expected_data_bytes_' = get_expected_data_bytes(running_status_)
    /\ data_' = [data_ EXCEPT ![0] = byte]
    /\ UNCHANGED running_status_
    /\ IF get_expected_data_bytes(running_status_) = 1
       THEN /\ events' = process_message(running_status_, data_')
            /\ state_' = "Idle"
       ELSE /\ events' = << >>
            /\ state_' = "AwaitData2"

\* parse, 89-103: a data byte in Idle (running status)
parse_data_idle(byte) ==
    IF running_status_ # 0
    THEN /\ current_status_' = running_status_
         /\ expected_data_bytes_' = get_expected_data_bytes(running_status_)
         /\ data_' = [data_ EXCEPT ![0] = byte]
         /\ UNCHANGED running_status_
         /\ IF get_expected_data_bytes(running_status_) = 1
            THEN /\ events' = process_message(running_status_, data_')
                 /\ state_' = "Idle"
            ELSE /\ events' = << >>
                 /\ state_' = "AwaitData2"
    ELSE /\ events' = << >>
         /\ UNCHANGED parseVars

\* parse, 85-121: a data byte
parse_data_byte(byte) ==
    IF state_ = "Idle"
    THEN parse_data_idle(byte)
    ELSE IF state_ = "AwaitData1"
    THEN /\ data_' = [data_ EXCEPT ![0] = byte]
         /\ UNCHANGED <<running_status_, current_status_, expected_data_bytes_>>
         /\ IF expected_data_bytes_ = 1
            THEN /\ events' = process_message(current_status_, data_')
                 /\ state_' = "Idle"
            ELSE /\ events' = << >>
                 /\ state_' = "AwaitData2"
    ELSE /\ data_' = [data_ EXCEPT ![1] = byte]
         /\ UNCHANGED <<running_status_, current_status_, expected_data_bytes_>>
         /\ events' = process_message(current_status_, data_')
         /\ state_' = "Idle"

\* a channel status byte of a type with two data bytes
TwoDataStatus(S) == (S \div 16) \in {8, 9, 11, 14}

\* the parse fields as one record, and their values after reset()
Ps == [state |-> state_, running |-> running_status_,
       current |-> current_status_, data |-> data_,
       expected |-> expected_data_bytes_]
PsReset == [state |-> "Idle", running |-> 0, current |-> 0,
            data |-> [i \in {0, 1} |-> 0], expected |-> 0]

\* MidiParser::parse as a function: the parse fields after parse(byte)
\* called with the fields ps
parse_fields(ps, byte) ==
    IF is_realtime_byte(byte) THEN ps
    ELSE IF is_system_common_byte(byte) THEN PsReset
    ELSE IF is_status_byte(byte)
    THEN [ps EXCEPT !.current = byte,
                    !.running = byte,
                    !.expected = get_expected_data_bytes(byte),
                    !.state = IF get_expected_data_bytes(byte) = 0
                              THEN "Idle" ELSE "AwaitData1"]
    ELSE IF ~is_data_byte(byte) THEN PsReset
    ELSE IF ps.state = "Idle"
    THEN IF ps.running # 0
         THEN [ps EXCEPT !.current = ps.running,
                         !.expected = get_expected_data_bytes(ps.running),
                         !.data[0] = byte,
                         !.state =
                             IF get_expected_data_bytes(ps.running) = 1
                             THEN "Idle" ELSE "AwaitData2"]
         ELSE ps
    ELSE IF ps.state = "AwaitData1"
    THEN [ps EXCEPT !.data[0] = byte,
                    !.state = IF ps.expected = 1
                              THEN "Idle" ELSE "AwaitData2"]
    ELSE [ps EXCEPT !.data[1] = byte, !.state = "Idle"]

\* parse(byte) called with the fields ps reaches a process_message() call
parse_completes(ps, byte) ==
    IF is_realtime_byte(byte) \/ is_system_common_byte(byte) THEN FALSE
    ELSE IF is_status_byte(byte) THEN get_expected_data_bytes(byte) = 0
    ELSE IF ~is_data_byte(byte) THEN FALSE
    ELSE IF ps.state = "Idle"
    THEN ps.running # 0 /\ get_expected_data_bytes(ps.running) = 1
    ELSE IF ps.state = "AwaitData1" THEN ps.expected = 1
    ELSE TRUE

\* MidiParser::parse as a function: the callbacks parse(byte) invokes when
\* called with the fields ps
parse_events(ps, byte) ==
    IF is_realtime_byte(byte) THEN handle_realtime_byte(byte)
    ELSE IF parse_completes(ps, byte)
    THEN process_message(parse_fields(ps, byte).current,
                         parse_fields(ps, byte).data)
    ELSE << >>

\* the history of the byte stream as one record
Rs == [S |-> rs_S, n |-> rs_n, prev |-> rs_prev, rt |-> rs_rt,
       cut |-> rs_cut]
RsSet(rs) ==
    /\ rs_S' = rs.S /\ rs_n' = rs.n /\ rs_prev' = rs.prev
    /\ rs_rt' = rs.rt /\ rs_cut' = rs.cut

\* the stream is inside a message: its status byte has been fed (or was
\* fed earlier and a new pair has begun) and its last data byte has not
MidMessage(rs) == TwoDataStatus(rs.S) /\ rs.n \in {0, 1, 3}

\* the history after construction, reset() or a system-common byte
RsCut(rs, by) ==
    [S |-> 0, n |-> 0, prev |-> 0, rt |-> FALSE,
     cut |-> [by |-> by, partial |-> MidMessage(rs)]]
RsNew == [S |-> 0, n |-> 0, prev |-> 0, rt |-> FALSE,
          cut |-> [by |-> "new", partial |-> FALSE]]

\* the history of the byte stream after feeding byte
RsFeed(rs, byte) ==
    IF is_realtime_byte(byte)
    THEN [rs EXCEPT !.rt = IF MidMessage(rs) THEN TRUE ELSE rs.rt]
    ELSE IF is_system_common_byte(byte)
    THEN RsCut(rs, "syscommon")
    ELSE IF is_status_byte(byte)
    THEN [S |-> byte, n |-> 0, prev |-> 0, rt |-> FALSE,
          cut |-> [by |-> "none", partial |-> FALSE]]
    ELSE [rs EXCEPT !.n = IF rs.n = 4 THEN 3 ELSE rs.n + 1,
                    !.prev = IF rs.n \in {1, 3} THEN rs.prev ELSE byte,
                    !.rt = IF rs.n \in {2, 4} THEN FALSE ELSE rs.rt]

rs_feed(byte) == RsSet(RsFeed(Rs, byte))

\* entries of the recorded input: a byte, or a cut
UartEntry(byte) == [byte |-> byte, err |-> FALSE]
UartError == [byte |-> 0, err |-> TRUE]
\* the recorded input has room for n more entries
RecordRoom(n) == recording > 0 => Len(stream) + n <= recording
\* the recorded input after entries were handed over and evs invoked
Record(entries, evs) ==
    /\ IF recording > 0
       THEN stream' = stream \o entries /\ log' = log \o evs
       ELSE UNCHANGED <<stream, log>>
    /\ UNCHANGED recording

\* MidiParser::parse(byte)
parse(byte) ==
    /\ IF is_realtime_byte(byte)
       THEN /\ events' = handle_realtime_byte(byte)
            /\ UNCHANGED parseVars
       ELSE IF is_system_common_byte(byte)
       THEN /\ reset_fields
            /\ events' = << >>
       ELSE IF is_status_byte(byte)
       THEN parse_status_byte(byte)
       ELSE IF is_data_byte(byte)
       THEN parse_data_byte(byte)
       ELSE /\ reset_fields
            /\ events' = << >>
    /\ rs_feed(byte)
    /\ RecordRoom(1)
    /\ Record(<<UartEntry(byte)>>, events')
    /\ last' = Call("parse", byte, TRUE, NoByte)
    /\ UNCHANGED <<rbVars, pcVars, histVars, convVars, cfgVars, uart_initialized_>>

\* MidiParser::reset()
reset ==
    /\ reset_fields
    /\ events' = << >>
    /\ RsSet(RsCut(Rs, "reset"))
    /\ RecordRoom(1)
    /\ Record(<<UartError>>, << >>)
    /\ last' = Call("reset", NoByte, TRUE, NoByte)
    /\ UNCHANGED <<rbVars, pcVars, histVars, convVars, cfgVars, uart_initialized_>>

\* the assignment of all five parse fields
PsSet(ps) ==
    /\ state_' = ps.state
    /\ running_status_' = ps.running
    /\ current_status_' = ps.current
    /\ data_' = ps.data
    /\ expected_data_bytes_' = ps.expected

\* the parser's ring buffer as a record, and the RingBuffer calls that
\* process_uart makes on it
Rb == [buf |-> data_buffer_, r |-> read_index_, w |-> write_index_]
rb_is_empty(rb) == rb.r = rb.w
rb_is_full(rb) == ((rb.w + 1) % buffer_size_) = rb.r
rb_write_byte(rb, data) ==
    IF ~rb_is_full(rb)
    THEN [rb EXCEPT !.buf[rb.w] = data,
                    !.w = IF U16(rb.w + 1) >= buffer_size_
                          THEN 0 ELSE U16(rb.w + 1)]
    ELSE rb
rb_read_byte(rb) ==
    IF ~rb_is_empty(rb)
    THEN [rb EXCEPT !.r = IF U16(rb.r + 1) >= buffer_size_
                          THEN 0 ELSE U16(rb.r + 1)]
    ELSE rb

\* a first loop that gives up the partial message when the UART has
\* nothing more to hand out
RECURSIVE uart_read_loop_expire(_, _)
uart_read_loop_expire(st, rx) ==
    IF rx = << >> THEN [st EXCEPT !.ps = PsReset]
    ELSE IF Head(rx).err
    THEN uart_read_loop_expire([st EXCEPT !.ps = PsReset,
                                          !.rs = RsCut(st.rs, "reset")],
                               Tail(rx))
    ELSE uart_read_loop_expire(
             [st EXCEPT !.rb = rb_write_byte(st.rb, Head(rx).byte)],
             Tail(rx))

\* a first loop whose write goes through when the ring buffer is full
RECURSIVE uart_read_loop_over(_, _)
uart_read_loop_over(st, rx) ==
    IF Len(rx) = 0 THEN st
    ELSE IF Len(rx) = 1
    THEN IF rx[1].err
         THEN [st EXCEPT !.ps = PsReset, !.rs = RsCut(st.rs, "reset")]
         ELSE [st EXCEPT
                  !.rb.buf[st.rb.w] = rx[1].byte,
                  !.rb.w = IF U16(st.rb.w + 1) >= buffer_size_
                           THEN 0 ELSE U16(st.rb.w + 1)]
    ELSE LET h == Len(rx) \div 2
             mid == uart_read_loop_over(st, SubSeq(rx, 1, h))
         IN  IF mid = st
             THEN uart_read_loop_over(st, SubSeq(rx, h + 1, Len(rx)))
             ELSE uart_read_loop_over(mid, SubSeq(rx, h + 1, Len(rx)))

\* process_uart, 190-206: the loop over the readable entries rx; one
\* iteration calls reset() on an error report and writes a byte to the
\* ring buffer otherwise (the byte is lost when the buffer is full). The
\* iterations over a longer rx are those over its first half followed by
\* those over its second half, which keeps the evaluation shallow for a
\* chunk longer than the buffer; the comparison of mid with st evaluates
\* the first half before the second and selects between two equal states.
RECURSIVE uart_read_loop(_, _)
uart_read_loop(st, rx) ==
    IF Len(rx) = 0 THEN st
    ELSE IF Len(rx) = 1
    THEN IF rx[1].err
         THEN [st EXCEPT !.ps = PsReset, !.rs = RsCut(st.rs, "reset")]
         ELSE [st EXCEPT !.rb = rb_write_byte(st.rb, rx[1].byte)]
    ELSE LET h == Len(rx) \div 2
             mid == uart_read_loop(st, SubSeq(rx, 1, h))
         IN  IF mid = st
             THEN uart_read_loop(st, SubSeq(rx, h + 1, Len(rx)))
             ELSE uart_read_loop(mid, SubSeq(rx, h + 1, Len(rx)))

\* a second loop that takes one byte per call
uart_parse_once(st) ==
    IF rb_is_empty(st.rb) THEN st
    ELSE LET byte == st.rb.buf[st.rb.r]
         IN  [rb  |-> rb_read_byte(st.rb),
              ps  |-> parse_fields(st.ps, byte),
              rs  |-> RsFeed(st.rs, byte),
              evs |-> st.evs \o parse_events(st.ps, byte)]

\* process_uart, 209-213: the loop that empties the ring buffer into
\* parse. iterate(s, n) is the loop from state s cut after n iterations:
\* it ends when the buffer is empty, one iteration reads a byte and
\* parses it, and n iterations are n \div 2 of them followed by the rest.
\* The buffer holds at most buffer_size_ - 1 bytes, so the loop has ended
\* after that many iterations.
uart_parse_loop(st) ==
    LET RECURSIVE iterate(_, _)
        iterate(s, n) ==
            IF n = 0 \/ rb_is_empty(s.rb) THEN s
            ELSE IF n = 1
            THEN LET byte == s.rb.buf[s.rb.r]
                 IN  [rb  |-> rb_read_byte(s.rb),
                      ps  |-> parse_fields(s.ps, byte),
                      rs  |-> RsFeed(s.rs, byte),
                      evs |-> s.evs \o parse_events(s.ps, byte)]
            ELSE iterate(iterate(s, n \div 2), n - (n \div 2))
    IN  iterate(st, buffer_size_ - 1)

\* the UART instances handed to init_uart: uart1 (the default of
\* init_uart(baud_rate)) and a null pointer
Uarts == {"uart1", "nullptr"}

\* MidiParser::init_uart(uart, rx_gpio, baud_rate): false, and nothing
\* done, for a null pointer
init_uart(uart) ==
    /\ uart_initialized_' = IF uart = "nullptr" THEN uart_initialized_ ELSE TRUE
    /\ events' = << >>
    /\ last' = Call("init_uart", NoByte, uart # "nullptr", NoByte)
    /\ UNCHANGED <<rbVars, pcVars, histVars, convVars, parseVars, cfgVars, rsVars,
                   recording, stream, log>>

\* MidiParser::process_uart(), rx being what the UART hands out while the
\* first loop runs (nothing can be taken from a UART that was not set up)
process_uart(rx) ==
    /\ RecordRoom(Len(rx))
    /\ IF ~uart_initialized_
       THEN /\ rx = << >>
            /\ events' = << >>
            /\ UNCHANGED <<rbVars, parseVars, rsVars, stream, log, recording>>
       ELSE LET st == uart_parse_loop(uart_read_loop(
                          [rb |-> Rb, ps |-> Ps, rs |-> Rs, evs |-> << >>],
                          rx))
            IN  /\ data_buffer_' = st.rb.buf
                /\ read_index_' = st.rb.r
                /\ write_index_' = st.rb.w
                /\ UNCHANGED buffer_size_
                /\ PsSet(st.ps)
                /\ RsSet(st.rs)
                /\ events' = st.evs
                /\ Record(rx, st.evs)
    /\ last' = Call("process_uart", NoByte, TRUE, NoByte)
    /\ UNCHANGED <<pcVars, histVars, convVars, cfgVars, uart_initialized_>>

\* set_channel without the upper limit
clamp_channel_low(ch) == IF ch < 1 THEN 1 ELSE ch

\* the value set_channel stores for ch
clamp_channel(ch) == IF ch < 1 THEN 1 ELSE IF ch > 16 THEN 16 ELSE ch

\* a cell of the parser's data_buffer_ that no call has written.  The array
\* is a member without initialiser (part_002 184): such a cell holds what
\* its memory held before, another byte in every cell and in every run, and
\* no step reads it, so its content is left open
Indeterminate == U8Max + 2

\* MidiParser::set_channel(ch)
set_channel(ch) ==
    /\ channel_filter_' = clamp_channel(ch)
    /\ events' = << >>
    /\ last' = Call("set_channel", ch, TRUE, NoByte)
    /\ UNCHANGED <<rbVars, pcVars, histVars, convVars, parseVars, omni_mode_, callbacks,
                   rsVars, uartVars>>

\* MidiParser::set_note_on_callback, set_note_off_callback,
\* set_control_change_callback, set_pitch_bend_callback and
\* set_realtime_callback: the pointer named cb is assigned, a function
\* (callback) or nullptr
set_callback(cb, callback) ==
    /\ callbacks' = IF callback THEN callbacks \cup {cb} ELSE callbacks \ {cb}
    /\ events' = << >>
    /\ last' = Call("set_callback", NoByte, callback, NoByte)
    /\ UNCHANGED <<rbVars, pcVars, histVars, convVars, parseVars,
                   channel_filter_, omni_mode_, rsVars, uartVars>>

\* MidiParser::set_omni(enabled)
set_omni(enabled) ==
    /\ omni_mode_' = enabled
    /\ events' = << >>
    /\ last' = Call("set_omni", NoByte, enabled, NoByte)
    /\ UNCHANGED <<rbVars, pcVars, histVars, convVars, parseVars, channel_filter_,
                   callbacks, rsVars, uartVars>>

----------------------------------------------------------------------------
(* brain::utils::MidiToCV (src/lib/brain-utils/midi-to-cv.cpp)               *)

kNoteStackSize == 25
kZeroCVMidiNote == 24

NoteVelocity(note, velocity) == [note |-> note, velocity |-> velocity]
\* the content of an unused slot of note_stack_
EmptySlot == NoteVelocity(U8Max, 0)
\* note_stack_ and current_stack_size_ as one record
Ns == [stack |-> note_stack_, size |-> current_stack_size_]

\* MidiToCV::find_note: the loop from slot i on
RECURSIVE find_from(_, _, _)
find_from(stack, note, i) ==
    IF i >= kNoteStackSize THEN -1
    ELSE IF stack[i].note = note THEN i
    ELSE IF stack[i].note = U8Max THEN -1
    ELSE find_from(stack, note, i + 1)

find_note(stack, note) == find_from(stack, note, 0)

\* push_note that makes room by removing the oldest note when full
push_note_steal(ns, note, velocity) ==
    IF find_note(ns.stack, note) # -1 THEN ns
    ELSE IF ns.size < kNoteStackSize
    THEN [stack |-> [ns.stack EXCEPT ![ns.size] = NoteVelocity(note, velocity)],
          size  |-> ns.size + 1]
    ELSE [stack |-> [i \in 0..(kNoteStackSize - 1) |->
                        IF i < kNoteStackSize - 1 THEN ns.stack[i + 1]
                        ELSE NoteVelocity(note, velocity)],
          size  |-> ns.size]

\* push_note that moves a note that is already held to the top
push_note_retop(ns, note, velocity) ==
    LET note_index == find_note(ns.stack, note)
    IN  IF note_index # -1
        THEN [stack |-> [i \in 0..(kNoteStackSize - 1) |->
                            IF i >= note_index /\ i < ns.size - 1
                            THEN ns.stack[i + 1]
                            ELSE IF i = ns.size - 1
                            THEN NoteVelocity(note, velocity)
                            ELSE ns.stack[i]],
              size  |-> ns.size]
        ELSE IF ns.size < kNoteStackSize
        THEN [stack |-> [ns.stack EXCEPT
                            ![ns.size] = NoteVelocity(note, velocity)],
              size  |-> ns.size + 1]
        ELSE ns

\* push_note without the test for a note that is already held
push_note_again(ns, note, velocity) ==
    IF ns.size < kNoteStackSize
    THEN [stack |-> [ns.stack EXCEPT ![ns.size] = NoteVelocity(note, velocity)],
          size  |-> ns.size + 1]
    ELSE ns

\* MidiToCV::push_note
push_note(ns, note, velocity) ==
    IF find_note(ns.stack, note) # -1 THEN ns
    ELSE IF ns.size < kNoteStackSize
    THEN [stack |-> [ns.stack EXCEPT ![ns.size] = NoteVelocity(note, velocity)],
          size  |-> ns.size + 1]
    ELSE ns

\* pop_note that leaves the freed last slot as it was
pop_note_stale(ns, note) ==
    LET note_index == find_note(ns.stack, note)
    IN  IF note_index = -1 THEN ns
        ELSE [stack |-> [i \in 0..(kNoteStackSize - 1) |->
                            IF i >= note_index /\ i < ns.size - 1
                            THEN ns.stack[i + 1]
                            ELSE ns.stack[i]],
              size  |-> (ns.size - 1) % (U8Max + 1)]

\* pop_note that fills the hole with the last held note
pop_note_swap(ns, note) ==
    LET note_index == find_note(ns.stack, note)
    IN  IF note_index = -1 THEN ns
        ELSE [stack |-> [i \in 0..(kNoteStackSize - 1) |->
                            IF i = ns.size - 1 THEN EmptySlot
                            ELSE IF i = note_index THEN ns.stack[ns.size - 1]
                            ELSE ns.stack[i]],
              size  |-> (ns.size - 1) % (U8Max + 1)]

\* MidiToCV::pop_note.  With no note counted and the note found (the
\* sentinel 255 in a stack after reset_note_stack), the bound of the loop,
\* current_stack_size_ - 1 = -1, is compared as a size_t, the loop copies
\* past the end of note_stack_, and 182 stores in front of it: undefined
\* behaviour.  What follows differs from build to build (the process is
\* killed in the loop; or the call returns with current_stack_size_ = 255
\* and the members around note_stack_ overwritten, values outside their
\* types included, the caller goes on with them and a later call is
\* killed), so the result is left open
pop_note(ns, note) ==
    LET note_index == find_note(ns.stack, note)
    IN  IF note_index = -1 THEN ns
        ELSE IF ns.size = 0 THEN [undefined |-> TRUE]
        ELSE [stack |-> [i \in 0..(kNoteStackSize - 1) |->
                            IF i >= note_index /\ i < ns.size - 1
                            THEN ns.stack[i + 1]
                            ELSE IF i = ns.size - 1 THEN EmptySlot
                            ELSE ns.stack[i]],
              size  |-> (ns.size - 1) % (U8Max + 1)]

\* the stack after MidiToCV::reset_note_stack
NsReset == [stack |-> [i \in 0..(kNoteStackSize - 1) |-> EmptySlot],
            size  |-> 0]

\* voltages, kept exact: num/den volts (pitch), or num/den of
\* AudioCvOut::kMaxVoltage (a MIDI value)
ZeroVolts == [num |-> 0, den |-> 1, of |-> "volt"]
Volts(num, den, of) ==
    IF num = 0 THEN ZeroVolts ELSE [num |-> num, den |-> den, of |-> of]
\* the pitch with the difference taken in uint8_t
PitchVolts_u8(note) ==
    Volts((note - kZeroCVMidiNote) % (U8Max + 1), 12, "volt")

\* set_cv, 220: (play_note.note - kZeroCVMidiNote) / 12.0f, the difference
\* taken in int
PitchVolts(note) == Volts(note - kZeroCVMidiNote, 12, "volt")
midi_value_to_voltage(value) == Volts(value, 127, "kMaxVoltage")

\* set_pitch_channel, 153: the channel that is not cv_channel
OtherChannel(cv_channel) == IF cv_channel = "A" THEN "B" ELSE "A"

\* the entries of out
DacWrite(ch, v) == [sink |-> "dac", ch |-> ch, v |-> v]
GateSet(state) == [sink |-> "gate", v |-> state]
UserCall(cb, note, velocity, channel) ==
    IF cb \in user_callbacks
    THEN <<[sink |-> "callback", cb |-> cb, note |-> note,
            velocity |-> velocity, ch |-> channel]>>
    ELSE << >>

\* the members a handler of the converter reads and writes, as one
\* record: out collects what the call writes to the DAC and the gate and
\* the user callbacks it invokes, undefined is set when the call ran into
\* undefined behaviour
Cs == [stack |-> note_stack_, size |-> current_stack_size_,
       last_note |-> last_note_, modwheel |-> modwheel_value_,
       gate |-> gate_on_, dac |-> dac, out |-> << >>, held |-> held,
       undefined |-> FALSE]
NsOf(cs) == [stack |-> cs.stack, size |-> cs.size]

\* the behaviour of the program is defined: no call has run into undefined
\* behaviour.  After such a call the variables say nothing about the
\* program, and no further call is modelled
Defined == last.op # "undefined"

\* the assignment of the members of cs at the end of the call
CsSet(cs, call) ==
    /\ note_stack_' = cs.stack
    /\ current_stack_size_' = cs.size
    /\ last_note_' = cs.last_note
    /\ modwheel_value_' = cs.modwheel
    /\ gate_on_' = cs.gate
    /\ dac' = cs.dac
    /\ out' = IF cs.undefined THEN <<[sink |-> "undefined"]>> ELSE cs.out
    /\ held' = cs.held
    /\ last' = IF cs.undefined THEN Call("undefined", NoByte, FALSE, NoByte)
               ELSE call

\* set_cv with the first note of the stack taken
play_note_first(cs) ==
    IF cs.size > 0 THEN cs.stack[0] ELSE cs.last_note

\* set_cv that falls back to the 0 V note when no note is held
play_note_zero(cs) ==
    IF cs.size > 0 THEN cs.stack[cs.size - 1]
    ELSE NoteVelocity(kZeroCVMidiNote, 0)

\* set_cv, 212-218: the note played with the members cs
play_note(cs) ==
    IF cs.size > 0 THEN cs.stack[cs.size - 1] ELSE cs.last_note

\* set_cv, 220-240: the writes to dac_ for the note play, modwheel being
\* modwheel_value_
set_cv_writes(play, modwheel) ==
    <<DacWrite(cv_channel_, PitchVolts(play.note))>> \o
    (IF mode_ = "kUnison"
     THEN <<DacWrite(cv_other_channel_, PitchVolts(play.note))>>
     ELSE IF mode_ = "kModWheel"
     THEN <<DacWrite(cv_other_channel_, midi_value_to_voltage(modwheel)),
            DacWrite(cv_other_channel_, midi_value_to_voltage(play.velocity))>>
     ELSE <<DacWrite(cv_other_channel_, midi_value_to_voltage(play.velocity))>>)

\* the voltages on the two channels after the writes ws
RECURSIVE DacAfter(_, _)
DacAfter(d, ws) ==
    IF ws = << >> THEN d
    ELSE DacAfter([d EXCEPT ![Head(ws).ch] = Head(ws).v], Tail(ws))

\* note_on / note_off with the gate set before the CV is written
AfterStack_gate_first(cs, ns, gates, calls) ==
    LET at == [cs EXCEPT !.stack = ns.stack, !.size = ns.size]
        writes == IF cv_enabled_
                  THEN set_cv_writes(play_note(at), cs.modwheel) ELSE << >>
    IN  [at EXCEPT !.last_note = IF cv_enabled_ THEN play_note(at) ELSE @,
                   !.dac = DacAfter(@, writes),
                   !.gate = IF gates = << >> THEN @ ELSE gates[Len(gates)].v,
                   !.out = @ \o gates \o writes \o calls]

\* the part common to note_on and note_off once the stack is ns:
\* if (cv_enabled_) set_cv(); then the gate writes; then the user callback
AfterStack(cs, ns, gates, calls) ==
    LET at == [cs EXCEPT !.stack = ns.stack, !.size = ns.size]
        writes == IF cv_enabled_
                  THEN set_cv_writes(play_note(at), cs.modwheel) ELSE << >>
    IN  [at EXCEPT !.last_note = IF cv_enabled_ THEN play_note(at) ELSE @,
                   !.dac = DacAfter(@, writes),
                   !.gate = IF gates = << >> THEN @ ELSE gates[Len(gates)].v,
                   !.out = @ \o writes \o gates \o calls]

\* the held notes as the key events define them
HeldAfterOn(h, note) ==
    IF (\E i \in 1..Len(h) : h[i] = note) \/ Len(h) >= kNoteStackSize
    THEN h ELSE Append(h, note)
HeldAfterOff(h, note) == SelectSeq(h, LAMBDA x : x # note)

\* the body of MidiToCV::note_off
note_off_body(cs, note, velocity, channel) ==
    LET ns == pop_note(NsOf(cs), note)
    IN  IF "undefined" \in DOMAIN ns THEN [cs EXCEPT !.undefined = TRUE]
        ELSE [AfterStack(cs, ns,
                         IF ns.size = 0 THEN <<GateSet(FALSE)>> ELSE << >>,
                         UserCall("note_off", note, velocity, channel))
                 EXCEPT !.held = HeldAfterOff(@, note)]

\* the body of MidiToCV::note_on
note_on_body(cs, note, velocity, channel) ==
    IF velocity = 0 THEN note_off_body(cs, note, velocity, channel)
    ELSE [AfterStack(cs, push_note(NsOf(cs), note, velocity),
                     <<GateSet(TRUE)>>,
                     UserCall("note_on", note, velocity, channel))
             EXCEPT !.held = HeldAfterOn(@, note)]

\* the body of MidiToCV::control_change
control_change_body(cs, cc, value, channel) ==
    [cs EXCEPT !.modwheel = IF cc = 1 THEN value ELSE @]

\* MidiToCV::note_on(note, velocity, channel)
note_on(note, velocity, channel) ==
    /\ Defined
    /\ CsSet(note_on_body(Cs, note, velocity, channel),
             Call("note_on", note, TRUE, velocity))
    /\ UNCHANGED <<mode_, cv_enabled_, cv_channel_, cv_other_channel_, midi_channel_,
                   user_callbacks>>
    /\ UNCHANGED <<rbVars, pcVars, histVars, midiVars, initVars>>

\* MidiToCV::note_off(note, velocity, channel)
note_off(note, velocity, channel) ==
    /\ Defined
    /\ CsSet(note_off_body(Cs, note, velocity, channel),
             Call("note_off", note, TRUE, velocity))
    /\ UNCHANGED <<mode_, cv_enabled_, cv_channel_, cv_other_channel_, midi_channel_,
                   user_callbacks>>
    /\ UNCHANGED <<rbVars, pcVars, histVars, midiVars, initVars>>

\* MidiToCV::reset_note_stack()
reset_note_stack ==
    /\ Defined
    /\ note_stack_' = NsReset.stack
    /\ current_stack_size_' = NsReset.size
    /\ out' = << >>
    /\ held' = << >>
    /\ last' = Call("reset_note_stack", NoByte, TRUE, NoByte)
    /\ UNCHANGED <<mode_, cv_enabled_, cv_channel_, cv_other_channel_, midi_channel_, gate_on_,
                   last_note_, modwheel_value_, user_callbacks, dac>>
    /\ UNCHANGED <<rbVars, pcVars, histVars, midiVars, initVars>>

\* MidiToCV::Mode
Modes == {"kDefault", "kModWheel", "kUnison", "kDuo"}

\* MidiToCV::set_mode(mode)
set_mode(mode) ==
    /\ Defined
    /\ mode_' = mode
    /\ out' = << >>
    /\ last' = Call("set_mode", NoByte, TRUE, NoByte)
    /\ UNCHANGED <<cv_enabled_, cv_channel_, cv_other_channel_, midi_channel_, gate_on_,
                   note_stack_, current_stack_size_, last_note_,
                   modwheel_value_, user_callbacks, dac, held>>
    /\ UNCHANGED <<rbVars, pcVars, histVars, midiVars, initVars>>

\* MidiToCV::control_change(cc, value, channel)
control_change(cc, value, channel) ==
    /\ Defined
    /\ CsSet(control_change_body(Cs, cc, value, channel),
             Call("control_change", cc, TRUE, value))
    /\ UNCHANGED <<mode_, cv_enabled_, cv_channel_, cv_other_channel_, midi_channel_,
                   user_callbacks>>
    /\ UNCHANGED <<rbVars, pcVars, histVars, midiVars, initVars>>

\* MidiToCV::enable_cv()
enable_cv ==
    /\ Defined
    /\ cv_enabled_' = TRUE
    /\ out' = << >>
    /\ last' = Call("enable_cv", NoByte, TRUE, NoByte)
    /\ UNCHANGED <<mode_, cv_channel_, cv_other_channel_, midi_channel_, gate_on_, note_stack_,
                   current_stack_size_, last_note_, modwheel_value_,
                   user_callbacks, dac, held>>
    /\ UNCHANGED <<rbVars, pcVars, histVars, midiVars, initVars>>

\* MidiToCV::disable_cv()
disable_cv ==
    /\ Defined
    /\ cv_enabled_' = FALSE
    /\ out' = << >>
    /\ last' = Call("disable_cv", NoByte, TRUE, NoByte)
    /\ UNCHANGED <<mode_, cv_channel_, cv_other_channel_, midi_channel_, gate_on_, note_stack_,
                   current_stack_size_, last_note_, modwheel_value_,
                   user_callbacks, dac, held>>
    /\ UNCHANGED <<rbVars, pcVars, histVars, midiVars, initVars>>

\* MidiToCV::set_gate(state)
set_gate(state) ==
    /\ Defined
    /\ gate_on_' = state
    /\ out' = <<GateSet(state)>>
    /\ last' = Call("set_gate", NoByte, state, NoByte)
    /\ UNCHANGED <<mode_, cv_enabled_, cv_channel_, cv_other_channel_, midi_channel_,
                   note_stack_, current_stack_size_, last_note_,
                   modwheel_value_, user_callbacks, dac, held>>
    /\ UNCHANGED <<rbVars, pcVars, histVars, midiVars, initVars>>

\* MidiToCV::set_pitch_channel(cv_channel): 0 V on both channels, then the
\* pitch channel and the other channel are assigned
set_pitch_channel(cv_channel) ==
    /\ Defined
    /\ dac' = [ch \in {"A", "B"} |-> ZeroVolts]
    /\ cv_channel_' = cv_channel
    /\ cv_other_channel_' = OtherChannel(cv_channel)
    /\ out' = <<DacWrite("A", ZeroVolts), DacWrite("B", ZeroVolts)>>
    /\ last' = Call("set_pitch_channel", NoByte, TRUE, NoByte)
    /\ UNCHANGED <<mode_, cv_enabled_, midi_channel_, gate_on_, note_stack_,
                   current_stack_size_, last_note_, modwheel_value_,
                   user_callbacks, held>>
    /\ UNCHANGED <<rbVars, pcVars, histVars, midiVars, initVars>>

\* MidiToCV::set_note_on_callback and set_note_off_callback: the user's
\* pointer named cb is assigned, a function (callback) or nullptr
set_user_callback(cb, callback) ==
    /\ Defined
    /\ user_callbacks' = IF callback THEN user_callbacks \cup {cb}
                         ELSE user_callbacks \ {cb}
    /\ out' = << >>
    /\ last' = Call("set_user_callback", NoByte, callback, NoByte)
    /\ UNCHANGED <<mode_, cv_enabled_, cv_channel_, cv_other_channel_, midi_channel_, gate_on_,
                   note_stack_, current_stack_size_, last_note_,
                   modwheel_value_, dac, held>>
    /\ UNCHANGED <<rbVars, pcVars, histVars, midiVars, initVars>>

\* MidiToCV::set_midi_channel(midi_channel): the channel is stored and
\* handed to the parser's set_channel
set_midi_channel(midi_channel) ==
    /\ Defined
    /\ midi_channel_' = midi_channel
    /\ channel_filter_' = clamp_channel(midi_channel)
    /\ events' = << >>
    /\ out' = << >>
    /\ last' = Call("set_midi_channel", midi_channel, TRUE, NoByte)
    /\ UNCHANGED <<mode_, cv_enabled_, cv_channel_, cv_other_channel_, gate_on_, note_stack_,
                   current_stack_size_, last_note_, modwheel_value_,
                   user_callbacks, dac, held>>
    /\ UNCHANGED <<rbVars, pcVars, histVars, parseVars, omni_mode_,
                   callbacks, rsVars, uartVars, initVars>>

\* the static forwarder the parser invokes for the event e: note_on_callback,
\* note_off_callback or control_change_callback (69-85)
handle_event(cs, e) ==
    IF e.cb = "note_on" THEN note_on_body(cs, e.a, e.b, e.ch)
    ELSE IF e.cb = "note_off" THEN note_off_body(cs, e.a, e.b, e.ch)
    ELSE IF e.cb = "control_change"
    THEN control_change_body(cs, e.a, e.b, e.ch)
    ELSE cs

\* the handlers of the events evs, one after the other, as long as the
\* behaviour is defined: those of the first half, then those of the rest
RECURSIVE handle_events(_, _)
handle_events(cs, evs) ==
    IF Len(evs) = 0 \/ cs.undefined THEN cs
    ELSE IF Len(evs) = 1 THEN handle_event(cs, evs[1])
    ELSE LET h == Len(evs) \div 2
         IN  handle_events(handle_events(cs, SubSeq(evs, 1, h)),
                           SubSeq(evs, h + 1, Len(evs)))

\* MidiToCV::update() with the entries rx readable on the UART:
\* process_uart() parses them, and each callback the parser invokes is the
\* converter's static forwarder to note_on, note_off or control_change
\* (nothing can be taken from a UART that was not set up)
update(rx) ==
    /\ Defined
    /\ RecordRoom(Len(rx))
    /\ IF ~uart_initialized_
       THEN /\ rx = << >>
            /\ events' = << >>
            /\ out' = << >>
            /\ last' = Call("update", NoByte, TRUE, NoByte)
            /\ UNCHANGED <<rbVars, parseVars, rsVars, stream, log, recording,
                           gate_on_, note_stack_, current_stack_size_,
                           last_note_, modwheel_value_, dac, held>>
       ELSE LET st == uart_parse_loop(uart_read_loop(
                          [rb |-> Rb, ps |-> Ps, rs |-> Rs, evs |-> << >>],
                          rx))
            IN  /\ data_buffer_' = st.rb.buf
                /\ read_index_' = st.rb.r
                /\ write_index_' = st.rb.w
                /\ UNCHANGED buffer_size_
                /\ PsSet(st.ps)
                /\ RsSet(st.rs)
                /\ events' = st.evs
                /\ Record(rx, st.evs)
                /\ CsSet(handle_events(Cs, st.evs),
                         Call("update", NoByte, TRUE, NoByte))
    /\ UNCHANGED <<mode_, cv_enabled_, cv_channel_, cv_other_channel_, midi_channel_,
                   user_callbacks>>
    /\ UNCHANGED <<pcVars, histVars, cfgVars, uart_initialized_, initVars>>

\* MidiToCV::init(cv_channel, midi_channel), 8-15: instance_, midi_channel_
\* and mode_ are assigned, and the call waits in sleep_ms(200), the call
\* last records.  The calls other contexts make in the meantime (an
\* interrupt handler, the other core) are steps of their own
init(cv_channel, midi_channel) ==
    /\ Defined
    /\ init_pc = "idle"
    /\ midi_channel_' = midi_channel
    /\ mode_' = "kDefault"
    /\ init_pc' = "sleep"
    /\ init_cv_channel' = cv_channel
    /\ out' = << >>
    /\ last' = Call("sleep_ms", midi_channel, TRUE, NoByte)
    /\ UNCHANGED <<cv_enabled_, cv_channel_, cv_other_channel_, gate_on_,
                   note_stack_, current_stack_size_, last_note_,
                   modwheel_value_, user_callbacks, dac, held>>
    /\ UNCHANGED <<rbVars, pcVars, histVars, midiVars>>

\* MidiToCV::init, 18-58, once sleep_ms has returned, dac_ok being what
\* dac_.init() returns: false ends the call.  The parser is given
\* midi_channel_ as it is by now and the three forwarders; mode_ is not
\* assigned again and the user callbacks are not touched
init_wake(dac_ok) ==
    /\ Defined
    /\ init_pc = "sleep"
    /\ init_pc' = "idle"
    /\ init_cv_channel' = "none"
    /\ events' = << >>
    /\ last' = Call("init", midi_channel_, dac_ok, NoByte)
    /\ IF ~dac_ok
       THEN /\ out' = << >>
            /\ UNCHANGED <<cv_enabled_, cv_channel_, cv_other_channel_,
                           gate_on_, note_stack_, current_stack_size_,
                           last_note_, modwheel_value_, dac, held,
                           channel_filter_, callbacks, uart_initialized_>>
       ELSE /\ cv_enabled_' = TRUE
            /\ gate_on_' = FALSE
            /\ channel_filter_' = clamp_channel(midi_channel_)
            /\ callbacks' = callbacks \cup
                               {"note_on", "note_off", "control_change"}
            /\ uart_initialized_' = TRUE
            /\ note_stack_' = NsReset.stack
            /\ current_stack_size_' = NsReset.size
            /\ last_note_' = NoteVelocity(kZeroCVMidiNote, 0)
            /\ modwheel_value_' = 0
            /\ cv_channel_' = init_cv_channel
            /\ cv_other_channel_' = OtherChannel(init_cv_channel)
            /\ dac' = [ch \in {"A", "B"} |-> ZeroVolts]
            /\ out' = <<DacWrite("A", ZeroVolts), DacWrite("B", ZeroVolts),
                        GateSet(FALSE),
                        DacWrite("A", ZeroVolts), DacWrite("B", ZeroVolts)>>
            /\ held' = << >>
    /\ UNCHANGED <<mode_, midi_channel_, user_callbacks>>
    /\ UNCHANGED <<rbVars, pcVars, histVars, parseVars, omni_mode_, rsVars,
                   recording, stream, log>>

\* the converter after MidiToCV::init(cv_channel, midi_channel), with cbs
\* the user callbacks set afterwards
ConvInit(cv_channel, midi_channel, cbs) ==
    /\ mode_ = "kDefault"
    /\ cv_enabled_ = TRUE
    /\ cv_channel_ = cv_channel
    /\ cv_other_channel_ = OtherChannel(cv_channel)
    /\ midi_channel_ = midi_channel
    /\ gate_on_ = FALSE
    /\ note_stack_ = NsReset.stack
    /\ current_stack_size_ = NsReset.size
    /\ last_note_ = NoteVelocity(kZeroCVMidiNote, 0)
    /\ modwheel_value_ = 0
    /\ user_callbacks = cbs
    /\ dac = [ch \in {"A", "B"} |-> ZeroVolts]
    /\ out = << >>
    /\ held = << >>
    /\ init_pc = "idle"
    /\ init_cv_channel = "none"

\* a specification without a converter keeps these values
NoConv == ConvInit("A", 1, {})

----------------------------------------------------------------------------
(* Specifications of the parser *)

\* bytes fed to parse() in SpecParser: data bytes, channel status bytes of
\* the supported types (two channels for note-on), an unsupported type, a
\* system-common byte and a real-time byte
DataBytes == {0, 60, 100}
ParseBytes == DataBytes \cup {128, 144, 146, 176, 192, 224} \cup {240, 248}
\* arguments of the constructor and of set_channel
ChannelArgs == {0, 3, 17}
\* the callback pointers after set-up: every setter called, the two note
\* setters called (as MidiToCV::init does), no setter called
CallbackSetups == {CallbackNames, {"note_on", "note_off"}, {}}

\* MidiParser::MidiParser(channel, omni): set_channel(channel); reset();
\* buffer_.init(data_buffer_, kBufferSize).  The callback pointers start
\* as nullptr and are assigned by the setters (127-145) during set-up;
\* cbs are the pointers set by then.
MidiConstructed(channel, omni, cbs) ==
    /\ state_ = "Idle"
    /\ running_status_ = 0
    /\ current_status_ = 0
    /\ data_ = [i \in {0, 1} |-> 0]
    /\ expected_data_bytes_ = 0
    /\ channel_filter_ = clamp_channel(channel)
    /\ omni_mode_ = omni
    /\ callbacks = cbs
    /\ events = << >>
    /\ rs_S = RsNew.S /\ rs_n = RsNew.n /\ rs_prev = RsNew.prev
    /\ rs_rt = RsNew.rt /\ rs_cut = RsNew.cut
    /\ stream = << >>
    /\ log = << >>

\* the parser's own ring buffer after the constructor: the cells of
\* data_buffer_ are not initialised; parse() never touches it
InitParserRB ==
    /\ buffer_size_ = kBufferSize
    /\ data_buffer_ = [i \in 0..(kBufferSize - 1) |-> Indeterminate]
    /\ read_index_ = 0
    /\ write_index_ = 0
    /\ last = Call("init", NoByte, TRUE, NoByte)
    /\ wpc = "idle" /\ wdata = NoByte
    /\ rpc = "idle" /\ rdata = NoByte
    /\ wsb = << >> /\ rsb = << >>
    /\ accepted = << >>
    /\ delivered = << >>
    /\ peeks = << >>

InitParser ==
    /\ InitParserRB
    /\ uart_initialized_ = FALSE
    /\ recording = 0
    /\ NoConv
    /\ \E channel \in ChannelArgs, omni \in BOOLEAN, cbs \in CallbackSetups :
          MidiConstructed(channel, omni, cbs)

NextParser ==
    \/ \E byte \in ParseBytes : parse(byte)
    \/ reset
    \/ \E ch \in ChannelArgs : set_channel(ch)
    \/ \E enabled \in BOOLEAN : set_omni(enabled)

SpecParser == InitParser /\ [][NextParser]_vars

\* SpecRegister: a parser as the constructor leaves it (channel 1, omni on,
\* no callback pointer set) whose five callback pointers are set to a
\* function or to nullptr at any point, fed through parse() with a note-on
\* and a control-change status byte, a real-time byte and data bytes, and
\* reset at any point
RegisterBytes == {kNoteOnMask, kControlChangeMask, kRealtimeMin, 60, 100}

InitRegister ==
    /\ InitParserRB
    /\ uart_initialized_ = FALSE
    /\ recording = 0
    /\ NoConv
    /\ MidiConstructed(1, TRUE, {})

NextRegister ==
    \/ \E byte \in RegisterBytes : parse(byte)
    \/ reset
    \/ \E cb \in CallbackNames, callback \in BOOLEAN : set_callback(cb, callback)

SpecRegister == InitRegister /\ [][NextRegister]_vars

\* SpecBend: one pitch-bend message, with every pair of data bytes, fed byte
\* by byte to a parser constructed with the defaults (channel 1, omni off)
\* and every callback set
kDataMask == 127
BendBytes == {kPitchBendMask} \cup 0..kDataMask

InitBend ==
    /\ InitParserRB
    /\ uart_initialized_ = FALSE
    /\ recording = 0
    /\ NoConv
    /\ MidiConstructed(1, FALSE, CallbackNames)

NextBend ==
    \E byte \in BendBytes :
        /\ IF is_status_byte(byte) THEN rs_S = 0 ELSE rs_S # 0 /\ rs_n < 2
        /\ parse(byte)

SpecBend == InitBend /\ [][NextBend]_vars

\* SpecUart: a parser constructed with the defaults (channel 1, omni off)
\* and every callback set, fed through process_uart() with every split of
\* the input into calls, and through parse()
UartBytes == {144, 60, 100}
RxEntries == {UartEntry(byte) : byte \in UartBytes} \cup {UartError}
RxChunks == UNION {[1..n -> RxEntries] : n \in 0..MaxChunk}

InitUart ==
    /\ InitParserRB
    /\ MidiConstructed(1, FALSE, CallbackNames)
    /\ uart_initialized_ = FALSE
    /\ recording = MaxStream
    /\ NoConv

NextUart ==
    \/ \E uart \in Uarts : init_uart(uart)
    \/ \E rx \in RxChunks : process_uart(rx)
    \/ \E byte \in UartBytes : parse(byte)

SpecUart == InitUart /\ [][NextUart]_vars

\* SpecUnsupported: the parser of SpecBend fed through parse() with the
\* status bytes of the three unsupported channel types, a note-on status
\* byte and data bytes
UnsupportedBytes == {160, 192, 208}
NextUnsupported ==
    \E byte \in UnsupportedBytes \cup {kNoteOnMask} \cup DataBytes :
        parse(byte)

SpecUnsupported == InitBend /\ [][NextUnsupported]_vars

\* SpecResync: the parser of SpecBend fed through parse() with status bytes
\* of the four supported types (one of them on a channel that is filtered
\* out), an unsupported one, a system-common byte, a real-time byte and
\* data bytes, and reset at any point
ResyncBytes ==
    {kNoteOffMask, kNoteOnMask, kNoteOnMask + 1, kControlChangeMask,
     kPitchBendMask, 192, kSystemCommonMin, kRealtimeMin, 0, 60}

NextResync ==
    \/ \E byte \in ResyncBytes : parse(byte)
    \/ reset

SpecResync == InitBend /\ [][NextResync]_vars

\* SpecOverflow: the parser of SpecBend polled through process_uart() with
\* the UART handing out, in one call, a run of note-on messages
\* [0x90, 60, 100] of 0, 3, 118 or 121 bytes; the last is more than the
\* 119 bytes the ring buffer takes. A run is polled where a message starts in the
\* buffer (the write index is a multiple of 3), which bounds the runs.
OverflowLengths == {0, 3, kBufferSize - 2, kBufferSize + 1}
Chunk(n) == [i \in 1..n |-> UartEntry(<<kNoteOnMask, 60, 100>>[((i - 1) % 3) + 1])]

NextOverflow ==
    \/ \E uart \in Uarts : init_uart(uart)
    \/ \E n \in OverflowLengths :
           /\ write_index_ % 3 = 0
           /\ process_uart(Chunk(n))

SpecOverflow == InitBend /\ [][NextOverflow]_vars

\* SpecInterrupt: the parser of SpecUart fed through parse() with note-on
\* and note-off status bytes and data bytes, every stream of up to
\* MaxInterrupt bytes
InterruptBytes == {144, 128, 60, 61, 0}

InitInterrupt ==
    /\ InitParserRB
    /\ MidiConstructed(1, FALSE, CallbackNames)
    /\ uart_initialized_ = FALSE
    /\ recording = MaxInterrupt
    /\ NoConv

NextInterrupt == \E byte \in InterruptBytes : parse(byte)

SpecInterrupt == InitInterrupt /\ [][NextInterrupt]_vars

\* SpecPending: the parser of SpecUart polled through process_uart() with a
\* note-on status byte, a data byte, a real-time byte and error reports,
\* in chunks of any length, the empty one included
PendingBytes == {144, 60, 248}
PendingChunks ==
    UNION {[1..n -> {UartEntry(byte) : byte \in PendingBytes}
                    \cup {UartError}] : n \in 0..MaxChunk}

NextPending ==
    \/ \E uart \in Uarts : init_uart(uart)
    \/ \E rx \in PendingChunks : process_uart(rx)

SpecPending == InitUart /\ [][NextPending]_vars

----------------------------------------------------------------------------
(* Specifications of the converter *)

\* the parser member of a converter after MidiToCV::init(_, midi_channel)
InitConvParser(midi_channel) ==
    /\ InitParserRB
    /\ MidiConstructed(midi_channel, FALSE,
                       {"note_on", "note_off", "control_change"})
    /\ uart_initialized_ = TRUE
    /\ recording = 0

\* SpecConv: the converter's handlers called with notes below, at and above
\* the 0 V note, three velocities (0 is a release) and one channel
ConvNotes == {12, 60, 64}
ConvVelocities == {0, 64, 100}
UserCallbackSetups == {{}, {"note_on", "note_off"}}

InitConv ==
    /\ InitConvParser(1)
    /\ \E cv_channel \in {"A", "B"}, cbs \in UserCallbackSetups :
          ConvInit(cv_channel, 1, cbs)

NextConv ==
    \/ \E note \in ConvNotes, velocity \in ConvVelocities :
          note_on(note, velocity, 1)
    \/ \E note \in ConvNotes, velocity \in ConvVelocities :
          note_off(note, velocity, 1)
    \/ reset_note_stack

SpecConv == InitConv /\ [][NextConv]_vars

\* SpecFill: keys pressed one after the other upwards from FillFirst until
\* the stack is full and beyond; the keys released or pressed again are the
\* oldest held, the newest held and the next one above
FillFirst == 30
FillNotes == FillFirst..(FillFirst + kNoteStackSize)
FillTop == IF held = << >> THEN FillFirst - 1 ELSE held[Len(held)]
FillKeys ==
    (IF held = << >> THEN {} ELSE {held[1], held[Len(held)]})
    \cup ({FillTop + 1} \cap FillNotes)

InitFill ==
    /\ InitConvParser(1)
    /\ ConvInit("A", 1, {})

NextFill ==
    \/ \E note \in FillKeys : note_on(note, 100, 1)
    \/ \E note \in FillKeys : note_off(note, 0, 1)

SpecFill == InitFill /\ [][NextFill]_vars

\* SpecKeys: the keys of SpecFill, and reset_note_stack() at any point
NextKeys ==
    \/ NextFill
    \/ reset_note_stack

SpecKeys == InitFill /\ [][NextKeys]_vars

\* SpecModes: two keys, the four modes, the mod wheel (CC 1) and another
\* controller, CV output switched off and on, the gate set and the pitch
\* channel chosen by hand, the user callbacks set and cleared, and init
\* called again, any of the other calls made while it waits, with a DAC
\* that does or does not come up; a subclass also
\* calls note_off with 255, which is no MIDI note, while no note is held
ModeNotes == {60, 64}
\* controller and value of the control changes
ModeControls == {<<1, 0>>, <<1, 64>>, <<7, 64>>}

NextModes ==
    \/ \E note \in ModeNotes : note_on(note, 100, 1)
    \/ \E note \in ModeNotes : note_off(note, 0, 1)
    \/ current_stack_size_ = 0 /\ note_off(U8Max, 0, 1)
    \/ \E mode \in Modes : set_mode(mode)
    \/ \E c \in ModeControls : control_change(c[1], c[2], 1)
    \/ enable_cv
    \/ disable_cv
    \/ \E state \in BOOLEAN : set_gate(state)
    \/ \E cv_channel \in {"A", "B"} : set_pitch_channel(cv_channel)
    \/ \E cb \in {"note_on", "note_off"}, callback \in BOOLEAN :
          set_user_callback(cb, callback)
    \/ \E cv_channel \in {"A", "B"} : init(cv_channel, 1)
    \/ \E dac_ok \in BOOLEAN : init_wake(dac_ok)

SpecModes == InitConv /\ [][NextModes]_vars

\* SpecPitch: one key at a time, any of the 128 notes; the key is released
\* before the next one is pressed
PitchNotes == 0..127

NextPitch ==
    \/ \E note \in PitchNotes :
          /\ current_stack_size_ = 0
          /\ note_on(note, 100, 1)
    \/ \E note \in PitchNotes :
          /\ find_note(note_stack_, note) # -1
          /\ note_off(note, 0, 1)

SpecPitch == InitConv /\ [][NextPitch]_vars

\* SpecRelease: keys pressed one after the other upwards from FillFirst, at
\* most MaxKeys different ones; every held key may be released or pressed
\* again, and so may the next one above, which is not held
MaxKeys == 5
ReleaseKeys ==
    {held[i] : i \in 1..Len(held)}
    \cup ({FillTop + 1} \cap (FillFirst..(FillFirst + MaxKeys - 1)))

NextRelease ==
    \/ \E note \in ReleaseKeys : note_on(note, 100, 1)
    \/ \E note \in ReleaseKeys : note_off(note, 0, 1)

SpecRelease == InitFill /\ [][NextRelease]_vars

\* SpecChannel: a converter listening on channel 1 that receives note-ons
\* on channel 1, note-offs on channels 1 and 2 and the mod wheel on channel
\* 1, one message per update() or two (the second one with its status byte
\* or under running status), and whose MIDI channel is set to 1 or 2 at any
\* point; a held note was accepted on channel 1. A run receives messages
\* until 3 * MaxMessages bytes were stored.
MaxMessages == 3
ChannelNotes == {60, 64}
ChannelMessages ==
    {<<UartEntry(s), UartEntry(note), UartEntry(64)>> :
         s \in {kNoteOnMask, kNoteOffMask, kNoteOffMask + 1},
         note \in ChannelNotes}
    \cup {<<UartEntry(kControlChangeMask), UartEntry(1), UartEntry(64)>>}
    \cup {[i \in 1..Len(bytes) |-> UartEntry(bytes[i])] :
             bytes \in {<<kNoteOnMask, 60, 64, kNoteOnMask, 64, 64>>,
                        <<kNoteOnMask, 60, 64, kNoteOffMask, 60, 64>>,
                        <<kNoteOnMask, 60, 64, 64, 64>>}}
    \cup {<< >>}

NextChannel ==
    \/ \E rx \in ChannelMessages :
           /\ write_index_ < 3 * MaxMessages
           /\ update(rx)
    \/ \E midi_channel \in {1, 2} : set_midi_channel(midi_channel)

SpecChannel == InitFill /\ [][NextChannel]_vars


----------------------------------------------------------------------------
(* RingBuffer::init: the state after init(data_buffer, N).  The backing     *)
(* storage is caller-owned and not initialised by init: any content.        *)
InitRB ==
    /\ buffer_size_ \in Caps
    /\ data_buffer_ \in [0..(buffer_size_ - 1) -> ByteVals]
    /\ read_index_ = 0
    /\ write_index_ = 0
    /\ last = Call("init", NoByte, TRUE, NoByte)
    /\ wpc = "idle" /\ wdata = NoByte
    /\ rpc = "idle" /\ rdata = NoByte
    /\ wsb = << >> /\ rsb = << >>
    /\ accepted = << >>
    /\ delivered = << >>
    /\ peeks = << >>

----------------------------------------------------------------------------
(* Spec: every call is one step *)

\* write_byte that advances write_index_ before it stores the byte
write_byte_incfirst(data) ==
    /\ Len(accepted) < MaxWrites
    /\ IF ~is_full
       THEN /\ write_index_' = IF U16(write_index_ + 1) >= buffer_size_
                               THEN 0 ELSE U16(write_index_ + 1)
            /\ data_buffer_' = [data_buffer_ EXCEPT ![write_index_'] = data]
            /\ accepted' = Append(accepted, data)
            /\ last' = Call("write_byte", data, TRUE, NoByte)
       ELSE /\ UNCHANGED <<data_buffer_, write_index_, accepted>>
            /\ last' = Call("write_byte", data, FALSE, NoByte)
    /\ UNCHANGED <<buffer_size_, read_index_, delivered, peeks, pcVars, midiVars, convVars>>

\* write_byte that, on a full buffer, stores the byte over the newest one
write_byte_clobber(data) ==
    /\ Len(accepted) < MaxWrites
    /\ IF ~is_full
       THEN /\ data_buffer_' = [data_buffer_ EXCEPT ![write_index_] = data]
            /\ write_index_' = IF U16(write_index_ + 1) >= buffer_size_
                               THEN 0 ELSE U16(write_index_ + 1)
            /\ accepted' = Append(accepted, data)
            /\ last' = Call("write_byte", data, TRUE, NoByte)
       ELSE /\ data_buffer_' =
                  [data_buffer_ EXCEPT
                      ![(write_index_ + buffer_size_ - 1) % buffer_size_] = data]
            /\ UNCHANGED <<write_index_, accepted>>
            /\ last' = Call("write_byte", data, FALSE, NoByte)
    /\ UNCHANGED <<buffer_size_, read_index_, delivered, peeks, pcVars, midiVars, convVars>>

\* RingBuffer::write_byte(data)
write_byte(data) ==
    /\ Len(accepted) < MaxWrites
    /\ IF ~is_full
       THEN /\ data_buffer_' = [data_buffer_ EXCEPT ![write_index_] = data]
            /\ write_index_' = IF U16(write_index_ + 1) >= buffer_size_
                               THEN 0 ELSE U16(write_index_ + 1)
            /\ accepted' = Append(accepted, data)
            /\ last' = Call("write_byte", data, TRUE, NoByte)
       ELSE /\ UNCHANGED <<data_buffer_, write_index_, accepted>>
            /\ last' = Call("write_byte", data, FALSE, NoByte)
    /\ UNCHANGED <<buffer_size_, read_index_, delivered, peeks, pcVars, midiVars, convVars>>

\* RingBuffer::read_byte(data&)
read_byte ==
    /\ IF ~is_empty
       THEN /\ read_index_' = IF U16(read_index_ + 1) >= buffer_size_
                              THEN 0 ELSE U16(read_index_ + 1)
            /\ delivered' = Append(delivered, data_buffer_[read_index_])
            /\ last' = Call("read_byte", NoByte, TRUE, data_buffer_[read_index_])
            /\ peeks' = << >>
       ELSE /\ UNCHANGED <<read_index_, delivered, peeks>>
            /\ last' = Call("read_byte", NoByte, FALSE, NoByte)
    /\ UNCHANGED <<buffer_size_, data_buffer_, write_index_, accepted, pcVars, midiVars, convVars>>

\* peek that consumes the byte it returns
peek_consume ==
    /\ IF ~is_empty
       THEN /\ last' = Call("peek", NoByte, TRUE, data_buffer_[read_index_])
            /\ peeks' = Remember(peeks, data_buffer_[read_index_])
            /\ read_index_' = IF U16(read_index_ + 1) >= buffer_size_
                              THEN 0 ELSE U16(read_index_ + 1)
       ELSE /\ last' = Call("peek", NoByte, FALSE, NoByte)
            /\ UNCHANGED <<peeks, read_index_>>
    /\ UNCHANGED <<buffer_size_, data_buffer_, write_index_, accepted,
                   delivered, pcVars, midiVars, convVars>>

\* RingBuffer::peek(data&) const
peek ==
    /\ IF ~is_empty
       THEN /\ last' = Call("peek", NoByte, TRUE, data_buffer_[read_index_])
            /\ peeks' = Remember(peeks, data_buffer_[read_index_])
       ELSE /\ last' = Call("peek", NoByte, FALSE, NoByte)
            /\ UNCHANGED peeks
    /\ UNCHANGED <<rbVars, accepted, delivered, pcVars, midiVars, convVars>>

\* a call of RingBuffer::is_full() const
call_is_full ==
    /\ last' = Call("is_full", NoByte, is_full, NoByte)
    /\ UNCHANGED <<rbVars, histVars, pcVars, midiVars, convVars>>

\* a call of RingBuffer::is_empty() const
call_is_empty ==
    /\ last' = Call("is_empty", NoByte, is_empty, NoByte)
    /\ UNCHANGED <<rbVars, histVars, pcVars, midiVars, convVars>>

\* RingBuffer::init(data_buffer, buffer_size) called on a buffer in use: the
\* indices go back to 0, so the bytes not yet read are discarded, and the
\* buffer uses the storage handed in (the same array or another one) with
\* whatever that storage holds
RingBuffer_init(data_buffer, buffer_size) ==
    /\ buffer_size_' = buffer_size
    /\ write_index_' = 0
    /\ read_index_' = 0
    /\ data_buffer_' = data_buffer
    /\ accepted' = << >>
    /\ delivered' = << >>
    /\ peeks' = << >>
    /\ last' = Call("init", NoByte, TRUE, NoByte)
    /\ UNCHANGED <<pcVars, midiVars, convVars>>

\* a RingBuffer on its own; the parser fields stay as default-constructed
Init ==
    /\ InitRB
    /\ MidiConstructed(1, FALSE, {})
    /\ uart_initialized_ = FALSE
    /\ recording = 0
    /\ NoConv

Next ==
    \/ \E b \in ByteVals : write_byte(b)
    \/ read_byte
    \/ peek
    \/ call_is_full
    \/ call_is_empty
    \/ \E buffer_size \in Caps :
          \E data_buffer \in [0..(buffer_size - 1) -> ByteVals] :
              RingBuffer_init(data_buffer, buffer_size)

Spec == Init /\ [][Next]_vars

----------------------------------------------------------------------------
(* SpecConc: one producer executing write_byte and one consumer executing   *)
(* read_byte, interleaved statement by statement.  Each step is one         *)
(* statement of part_007 166-188.  The indices are volatile, not atomic,    *)
(* and no barrier orders the accesses (a data race): when the two contexts  *)
(* run on two CPUs, a store waits in the store buffer of its CPU, where     *)
(* only that CPU reads it, and reaches the memory the other CPU reads in a  *)
(* later step (p_drain, c_drain), the stores of one CPU in the order they   *)
(* were made.  A behaviour in which every store drains at once is an        *)
(* interrupt handler pre-empting the main loop on one CPU.                  *)

\* what a CPU reads for loc when memory holds mem and its store buffer sb
\* (the waiting stores, each to write_index_, to read_index_ or to the cell
\* data_buffer_[at]): its own newest waiting store to loc, else memory
Load(sb, loc, mem) ==
    LET own == {i \in 1..Len(sb) : sb[i].loc = loc}
    IN  IF own = {} THEN mem
        ELSE sb[CHOOSE i \in own : \A j \in own : j <= i].val

\* write_index_ as the producer reads it
p_write_index == Load(wsb, "write_index_", write_index_)

\* read_index_ as the consumer reads it
c_read_index == Load(rsb, "read_index_", read_index_)

\* producer calls write_byte(data)
p_call(data) ==
    /\ wpc = "idle"
    /\ Len(accepted) < MaxWrites
    /\ wpc' = "test"
    /\ wdata' = data
    /\ UNCHANGED <<rbVars, last, wsb, rpc, rdata, rsb, histVars,
                   midiVars, convVars>>

\* 167: if (!is_full())   ... 173: return false
\* (is_full() as the producer evaluates it: read_index_ comes from memory)
p_test ==
    /\ wpc = "test"
    /\ IF ((p_write_index + 1) % buffer_size_) # read_index_
       THEN /\ wpc' = "store"
            /\ UNCHANGED <<wdata, last>>
       ELSE /\ wpc' = "idle"
            /\ wdata' = NoByte
            /\ last' = Call("write_byte", wdata, FALSE, NoByte)
    /\ UNCHANGED <<rbVars, wsb, rpc, rdata, rsb, histVars,
                   midiVars, convVars>>

\* 168: data_buffer_[write_index_] = data
p_store ==
    /\ wpc = "store"
    /\ Len(wsb) < MaxStores
    /\ wsb' = Append(wsb, [loc |-> "data_buffer_", at |-> p_write_index,
                          val |-> wdata])
    /\ wpc' = "inc"
    /\ UNCHANGED <<rbVars, last, wdata, rpc, rdata, rsb, histVars,
                   midiVars, convVars>>

\* 169: write_index_++   (the byte is accepted)
p_inc ==
    /\ wpc = "inc"
    /\ Len(wsb) < MaxStores
    /\ wsb' = Append(wsb, [loc |-> "write_index_",
                          val |-> U16(p_write_index + 1)])
    /\ accepted' = Append(accepted, wdata)
    /\ wpc' = "wrap"
    /\ UNCHANGED <<rbVars, last, wdata, rpc, rdata, rsb, delivered, peeks,
                   midiVars, convVars>>

\* 170: if (write_index_ >= buffer_size_) write_index_ = 0;  171: return true
p_wrap ==
    /\ wpc = "wrap"
    /\ IF p_write_index >= buffer_size_
       THEN /\ Len(wsb) < MaxStores
            /\ wsb' = Append(wsb, [loc |-> "write_index_", val |-> 0])
       ELSE UNCHANGED wsb
    /\ wpc' = "idle"
    /\ wdata' = NoByte
    /\ last' = Call("write_byte", wdata, TRUE, NoByte)
    /\ UNCHANGED <<rbVars, rpc, rdata, rsb, histVars,
                   midiVars, convVars>>

\* the oldest store of the producer's CPU reaches memory
p_drain ==
    /\ wsb # << >>
    /\ wsb' = Tail(wsb)
    /\ IF Head(wsb).loc = "write_index_"
       THEN /\ write_index_' = Head(wsb).val
            /\ UNCHANGED data_buffer_
       ELSE /\ data_buffer_' = [data_buffer_ EXCEPT ![Head(wsb).at] = Head(wsb).val]
            /\ UNCHANGED write_index_
    /\ UNCHANGED <<buffer_size_, read_index_, last, wpc, wdata,
                   rpc, rdata, rsb, histVars, midiVars, convVars>>

\* consumer calls read_byte(data)
c_call ==
    /\ rpc = "idle"
    /\ Len(delivered) <= MaxWrites
    /\ rpc' = "test"
    /\ UNCHANGED <<rbVars, last, wpc, wdata, wsb, rdata, rsb, histVars,
                   midiVars, convVars>>

\* 181: if (!is_empty())   ... 187: return false
\* (is_empty() as the consumer evaluates it: write_index_ comes from memory)
c_test ==
    /\ rpc = "test"
    /\ IF c_read_index # write_index_
       THEN /\ rpc' = "load"
            /\ UNCHANGED last
       ELSE /\ rpc' = "idle"
            /\ last' = Call("read_byte", NoByte, FALSE, NoByte)
    /\ UNCHANGED <<rbVars, wpc, wdata, wsb, rdata, rsb, histVars,
                   midiVars, convVars>>

\* 182: data = data_buffer_[read_index_]   (the byte is taken)
c_load ==
    /\ rpc = "load"
    /\ rdata' = data_buffer_[c_read_index]
    /\ delivered' = Append(delivered, data_buffer_[c_read_index])
    /\ rpc' = "inc"
    /\ UNCHANGED <<rbVars, last, wpc, wdata, wsb, rsb, accepted, peeks,
                   midiVars, convVars>>

\* 183: read_index_++
c_inc ==
    /\ rpc = "inc"
    /\ Len(rsb) < MaxStores
    /\ rsb' = Append(rsb, [loc |-> "read_index_",
                          val |-> U16(c_read_index + 1)])
    /\ rpc' = "wrap"
    /\ UNCHANGED <<rbVars, last, wpc, wdata, wsb, rdata, histVars,
                   midiVars, convVars>>

\* 184: if (read_index_ >= buffer_size_) read_index_ = 0;  185: return true
c_wrap ==
    /\ rpc = "wrap"
    /\ IF c_read_index >= buffer_size_
       THEN /\ Len(rsb) < MaxStores
            /\ rsb' = Append(rsb, [loc |-> "read_index_", val |-> 0])
       ELSE UNCHANGED rsb
    /\ last' = Call("read_byte", NoByte, TRUE, rdata)
    /\ rpc' = "idle"
    /\ rdata' = NoByte
    /\ UNCHANGED <<rbVars, wpc, wdata, wsb, histVars,
                   midiVars, convVars>>

\* the oldest store of the consumer's CPU reaches memory (the slot becomes
\* free for the producer)
c_drain ==
    /\ rsb # << >>
    /\ rsb' = Tail(rsb)
    /\ read_index_' = Head(rsb).val
    /\ UNCHANGED <<buffer_size_, data_buffer_, write_index_, last,
                   wpc, wdata, wsb, rpc, rdata, histVars,
                   midiVars, convVars>>

NextConc ==
    \/ \E b \in ByteVals : p_call(b)
    \/ p_test
    \/ p_store
    \/ p_inc
    \/ p_wrap
    \/ p_drain
    \/ c_call
    \/ c_test
    \/ c_load
    \/ c_inc
    \/ c_wrap
    \/ c_drain

SpecConc == Init /\ [][NextConc]_vars

----------------------------------------------------------------------------
(* Claims on the RingBuffer, calls executed one at a time (Spec) *)

\* C1: FIFO.  The bytes returned by the successful read_byte calls are, in
\* order, the first of the bytes accepted by the successful write_byte calls,
\* and the accepted bytes not yet returned are exactly the bytes stored
\* between read_index_ and write_index_, in order: none lost, duplicated or
\* reordered.
C1_Fifo ==
    /\ IsPrefix(delivered, accepted)
    /\ Contents = SeqFrom(accepted, Len(delivered))

\* bytes of different values went through a buffer whose indices wrapped
C1_Witness ==
    /\ buffer_size_ >= 3
    /\ last.op = "read_byte" /\ last.ret
    /\ Len(delivered) > buffer_size_
    /\ \E i \in 1..(Len(delivered) - 1) : delivered[i] # delivered[i + 1]
    /\ delivered = accepted

\* C2: a buffer of capacity N holds at most N-1 bytes: a write_byte call
\* fails exactly when N-1 accepted bytes are unread, so from empty N-1 writes
\* succeed, the N-th fails, and after a read_byte a write succeeds again.
C2_Capacity ==
    /\ Count <= buffer_size_ - 1
    /\ (last.op = "write_byte" /\ ~last.ret) => Count = buffer_size_ - 1
    /\ (last.op = "write_byte" /\ last.ret) => Count >= 1

\* capacity 4: three bytes accepted, none read, the fourth write refused
C2_Witness ==
    /\ buffer_size_ = 4
    /\ last.op = "write_byte" /\ ~last.ret
    /\ Len(accepted) = 3 /\ delivered = << >>

\* C3: write_byte on a full buffer returns false and changes neither index
\* nor any stored byte; read_byte on an empty buffer returns false and
\* changes neither index.
C3_RefusedCallsChangeNothing ==
    [][ /\ (last'.op = "write_byte" /\ is_full) =>
              /\ ~last'.ret
              /\ UNCHANGED <<read_index_, write_index_>>
              /\ Contents' = Contents
              /\ accepted' = accepted
        /\ (last'.op = "read_byte" /\ is_empty) =>
              /\ ~last'.ret
              /\ UNCHANGED <<read_index_, write_index_>>
      ]_vars

\* a write was refused by a full buffer that holds at least two bytes
C3_Witness ==
    /\ last.op = "write_byte" /\ ~last.ret
    /\ is_full /\ Stored >= 2
    /\ last.arg # Contents[Stored]

\* C5: is_empty() is true iff no accepted byte is unread, is_full() is true
\* iff N-1 accepted bytes are unread, and for N >= 2 they are never both true.
C5_EmptyFull ==
    /\ is_empty <=> (Count = 0)
    /\ is_full <=> (Count = buffer_size_ - 1)
    /\ last.op = "is_empty" => (last.ret <=> (Count = 0))
    /\ last.op = "is_full" => (last.ret <=> (Count = buffer_size_ - 1))
    /\ buffer_size_ >= 2 => ~(is_empty /\ is_full)

\* is_full() answered true on a buffer whose write index is behind its read
\* index
C5_Witness ==
    /\ last.op = "is_full" /\ last.ret
    /\ buffer_size_ >= 3
    /\ write_index_ < read_index_

\* C6: peek(), is_full() and is_empty() change no field of the buffer; the
\* byte of a successful peek() is the byte of every earlier peek() since the
\* last read_byte(), and the next successful read_byte() returns it.
C6_QueriesChangeNothing ==
    [][ /\ last'.op \in {"peek", "is_full", "is_empty"} =>
              UNCHANGED <<rbVars, accepted, delivered>>
        /\ (last'.op \in {"peek", "read_byte"} /\ last'.ret) =>
              \A i \in 1..Len(peeks) : peeks[i] = last'.data
        /\ (last'.op = "peek" /\ Count > 0) =>
              last'.ret /\ last'.data = accepted[Len(delivered) + 1]
      ]_vars

\* two peeks in a row on a buffer that holds two different bytes
C6_Witness ==
    /\ last.op = "peek" /\ last.ret
    /\ Len(peeks) = 2
    /\ Stored >= 2 /\ Contents[1] # Contents[2]

----------------------------------------------------------------------------
(* Claims on the RingBuffer under statement-level interleaving (SpecConc) *)

\* C4: in every reachable state, the states between the statements of
\* write_byte and read_byte included, read_index_ and write_index_ are both
\* in [0, N).
C4_IndicesInRange ==
    /\ read_index_ \in 0..(buffer_size_ - 1)
    /\ write_index_ \in 0..(buffer_size_ - 1)

\* C7: with one producer and one consumer interleaved statement by
\* statement, the consumer returns only bytes the producer has published, in
\* the order of their publication, and the producer never holds more than
\* N-1 unread bytes in the buffer (it never overwrites an unread slot).
C7_SpscFifo ==
    /\ IsPrefix(delivered, accepted)
    /\ Count <= buffer_size_ - 1

----------------------------------------------------------------------------
(* Claims on MidiParser::parse *)

\* the message [S, d1, d2] as the protocol defines it (spec section 6)
MessageEvent(S, d1, d2) ==
    LET ch == (S % 16) + 1
        type == S \div 16
    IN  CASE type = 9 /\ d2 > 0 -> Ev("note_on", d1, d2, ch)
          [] type = 9 /\ d2 = 0 -> Ev("note_off", d1, 0, ch)
          [] type = 8           -> Ev("note_off", d1, d2, ch)
          [] type = 11          -> Ev("control_change", d1, d2, ch)
          [] type = 14          -> Ev("pitch_bend", (d2 * 128 + d1) - 8192,
                                      NoByte, ch)

\* what reaches the user of event e: nothing if its channel is filtered out
\* or its callback pointer is not set
Reaches(e) ==
    IF (omni_mode_ \/ e.ch = channel_filter_) /\ e.cb \in callbacks
    THEN <<e>> ELSE << >>

\* the last call fed a data byte
FedData == last.op = "parse" /\ last.arg < 128

\* C8: running status.  Once a status byte S of a two-data-byte type has been
\* fed, every pair of data bytes (d1, d2) that follows with no status or
\* system-common byte (or reset) in between is decoded as the message
\* [S, d1, d2]: the first byte of a pair invokes nothing, the second invokes
\* exactly the callback of that message (if the channel is accepted and the
\* callback is set).
C8_RunningStatus ==
    (FedData /\ TwoDataStatus(rs_S)) =>
        /\ rs_n \in {1, 3} => events = << >>
        /\ rs_n \in {2, 4} =>
              events = Reaches(MessageEvent(rs_S, rs_prev, last.arg))

\* [0x90, ..., 100, 60] with the status byte sent once: a later pair gives a
\* note-on on channel 1
C8_Witness ==
    /\ FedData /\ rs_S = 144 /\ rs_n = 4
    /\ events = <<Ev("note_on", 100, 60, 1)>>

\* C9: a complete note-on message with velocity 0 is delivered through the
\* note-off callback with (note, 0, n+1), and the note-on callback is only
\* ever invoked with a velocity in 1..127.
C9_NoteOnVelocityZero ==
    /\ \A i \in 1..Len(events) :
          events[i].cb = "note_on" => events[i].b \in 1..127
    /\ (FedData /\ rs_S \div 16 = 9 /\ rs_n \in {2, 4} /\ last.arg = 0) =>
          events = Reaches(Ev("note_off", rs_prev, 0, (rs_S % 16) + 1))

\* note-on 60 with velocity 0 on channel 3 came out of the note-off callback
\* while a note-on callback is set
C9_Witness ==
    /\ FedData /\ rs_S = 146 /\ last.arg = 0
    /\ "note_on" \in callbacks
    /\ events = <<Ev("note_off", 60, 0, 3)>>

\* C10: a pitch-bend message with data bytes d1, d2 hands (d2*128 + d1) - 8192
\* to the pitch-bend callback, a value in -8192..8191: [0x00,0x40] gives 0,
\* [0x7F,0x7F] gives 8191, [0x00,0x00] gives -8192.
C10_PitchBend ==
    (FedData /\ rs_S \div 16 = 14 /\ rs_n \in {2, 4}) =>
        /\ events = Reaches(Ev("pitch_bend",
                               (last.arg * 128 + rs_prev) - 8192,
                               NoByte, (rs_S % 16) + 1))
        /\ \A i \in 1..Len(events) :
              /\ events[i].a \in (0 - 8192)..8191
              /\ (rs_prev = 0 /\ last.arg = 64) => events[i].a = 0
              /\ (rs_prev = 127 /\ last.arg = 127) => events[i].a = 8191
              /\ (rs_prev = 0 /\ last.arg = 0) => events[i].a = 0 - 8192

\* [0xE0, 0x00, 0x00] reached the pitch-bend callback as -8192
C10_Witness ==
    /\ FedData /\ rs_S = 224 /\ rs_prev = 0 /\ last.arg = 0
    /\ events = <<Ev("pitch_bend", 0 - 8192, NoByte, 1)>>

\* C11: channel filtering at dispatch.  When a message of a supported type
\* completes on wire channel c (0..15), its callback (if set) is invoked iff
\* omni mode is on or c + 1 equals the channel filter, at most once, and the
\* channel handed to the callback is c + 1, a value in 1..16.
C11_ChannelFilter ==
    /\ \A i \in 1..Len(events) :
          events[i].cb # "realtime" =>
              /\ events[i].ch = (rs_S % 16) + 1
              /\ events[i].ch \in 1..16
    /\ (FedData /\ TwoDataStatus(rs_S) /\ rs_n \in {2, 4}) =>
          LET c == rs_S % 16
              cb == MessageEvent(rs_S, rs_prev, last.arg).cb
          IN  /\ Len(events) <= 1
              /\ cb \in callbacks =>
                    /\ omni_mode_ => Len(events) = 1
                    /\ ~omni_mode_ =>
                          (Len(events) = 1 <=> c + 1 = channel_filter_)
              /\ Len(events) = 1 => events[1].cb = cb

\* with omni off and the filter on channel 1, a complete note-on on wire
\* channel 2 (0x92) invoked nothing although the note-on callback is set
C11_Witness ==
    /\ FedData /\ rs_S = 146 /\ rs_n = 2 /\ last.arg = 100
    /\ ~omni_mode_ /\ channel_filter_ = 1
    /\ "note_on" \in callbacks
    /\ events = << >>

\* C12: filtering does not influence parsing.  The parse fields (state_,
\* running_status_, current_status_, data_, expected_data_bytes_) after
\* parse(byte) are a function of the parse fields before and of byte alone,
\* whatever the channel filter, the omni flag and the callbacks are, and
\* set_channel/set_omni leave them alone; hence two parsers that differ
\* only in filter or omni and are fed the same bytes hold the same parse
\* fields after every byte.  A channel status byte becomes the running
\* status whether its channel is accepted or not.
C12_FilterDoesNotInfluenceParsing ==
    [][ /\ last'.op = "parse" => Ps' = parse_fields(Ps, last'.arg)
        /\ last'.op \in {"set_channel", "set_omni"} => UNCHANGED parseVars
        /\ (last'.op = "parse" /\ last'.arg \in 128..239) =>
              running_status_' = last'.arg ]_vars

\* a note-on status on wire channel 2 that the filter (channel 1, omni off)
\* rejects is the running status, and its first data byte has been stored
C12_Witness ==
    /\ FedData /\ rs_S = 146 /\ rs_n = 1 /\ last.arg = 60
    /\ ~omni_mode_ /\ channel_filter_ = 1
    /\ running_status_ = 146 /\ current_status_ = 146
    /\ state_ = "AwaitData2" /\ data_[0] = 60

\* C13: real-time bytes are transparent.  parse() of a byte in 0xF8..0xFF,
\* in any parser state and whatever the channel filter is, invokes the
\* real-time callback (if set) with that byte and nothing else, and leaves
\* state_, running_status_, current_status_, data_ and
\* expected_data_bytes_ as they were; a message that completes with
\* real-time bytes fed inside it is decoded as the same message.
C13_RealtimeTransparent ==
    [][ /\ (last'.op = "parse" /\ last'.arg >= 248) =>
              /\ UNCHANGED parseVars
              /\ events' = IF "realtime" \in callbacks
                           THEN <<Ev("realtime", last'.arg, NoByte, NoByte)>>
                           ELSE << >>
        /\ (FedData' /\ TwoDataStatus(rs_S') /\ rs_n' \in {2, 4} /\ rs_rt') =>
              events' = Reaches(MessageEvent(rs_S', rs_prev', last'.arg))
      ]_vars

\* [0x90, 60, 0xF8, 100]: the note-on came out although a real-time byte
\* was fed between its data bytes
C13_Witness ==
    /\ FedData /\ rs_S = 144 /\ rs_n = 2 /\ rs_rt
    /\ events = <<Ev("note_on", 60, 100, 1)>>

\* C14: system-common bytes abort.  parse() of a byte in 0xF0..0xF7 invokes
\* no callback and leaves the parser as reset() does (Idle, no running
\* status, the partial message gone); the data bytes fed after it invoke no
\* callback and change nothing until a channel status byte is fed.
C14_SystemCommonAborts ==
    /\ (last.op = "parse" /\ last.arg \in 240..247) =>
          events = << >> /\ Ps = PsReset
    /\ (FedData /\ rs_cut.by = "syscommon") =>
          events = << >> /\ Ps = PsReset

\* [0x9n, d, 0xF0, d']: the system-common byte cut a message short, and the
\* data byte after it invoked nothing although every callback is set and
\* omni is on
C14_Witness ==
    /\ FedData /\ rs_cut = [by |-> "syscommon", partial |-> TRUE]
    /\ callbacks = CallbackNames /\ omni_mode_
    /\ events = << >> /\ state_ = "Idle"

\* C17: reset().  Called in any state, reset() leaves the parser in Idle
\* with running_status_ = 0, current_status_ = 0, expected_data_bytes_ = 0
\* and both data bytes 0, invokes nothing, and does not change the channel
\* filter, the omni flag or the callbacks; the data bytes fed after it
\* invoke no callback until a status byte is fed.
C17_Reset ==
    [][ /\ last'.op = "reset" =>
              /\ state_' = "Idle"
              /\ running_status_' = 0
              /\ current_status_' = 0
              /\ expected_data_bytes_' = 0
              /\ data_' = [i \in {0, 1} |-> 0]
              /\ events' = << >>
              /\ UNCHANGED <<channel_filter_, omni_mode_, callbacks>>
        /\ (FedData' /\ rs_cut'.by = "reset") => events' = << >>
      ]_vars

\* [0x9n, d, reset(), d']: reset() cut a message short, and the data byte
\* after it invoked nothing although every callback is set and omni is on
C17_Witness ==
    /\ FedData /\ rs_cut = [by |-> "reset", partial |-> TRUE]
    /\ callbacks = CallbackNames /\ omni_mode_
    /\ events = << >> /\ state_ = "Idle" /\ running_status_ = 0

----------------------------------------------------------------------------
(* Claims on MidiParser::process_uart *)

\* the events of the recorded input when it is fed entry by entry to a
\* parser with the fields ps: a byte goes to parse(), a cut resets
RECURSIVE Decode(_, _)
Decode(ps, entries) ==
    IF entries = << >> THEN << >>
    ELSE IF Head(entries).err THEN Decode(PsReset, Tail(entries))
    ELSE parse_events(ps, Head(entries).byte)
         \o Decode(parse_fields(ps, Head(entries).byte), Tail(entries))

\* the recorded input holds bytes only
NoCut == \A i \in 1..Len(stream) : ~stream[i].err

\* C15: chunking invariance.  For a sequence of received bytes (no error
\* report, no overflow of the 119-byte queue), the callbacks invoked, with
\* their arguments and in their order, are those of feeding the sequence
\* byte by byte in one batch, however the bytes were split across
\* process_uart() calls and parse() calls.
C15_ChunkingInvariance ==
    NoCut => log = Decode(PsReset, stream)

\* a note-on whose three bytes went through two process_uart() calls and
\* one parse() call, or another split with a process_uart() call at the end
C15_Witness ==
    /\ NoCut /\ Len(stream) >= 3
    /\ last.op = "process_uart"
    /\ read_index_ \in 1..2
    /\ events = <<Ev("note_on", 60, 100, 1)>>
    /\ log = events

\* C16: a UART error report resets the parser at that point of the stream.
\* The callbacks invoked are those of the recorded input with the parser
\* reset exactly where each error report lies: the message begun before a
\* report is dropped, no event is made of bytes from both sides of a
\* report, and running status from before a report is not used after it.
C16_ErrorResetsAtThatPoint ==
    log = Decode(PsReset, stream)

----------------------------------------------------------------------------
(* Claims on MidiToCV *)

\* C18: last-note priority.  After a note-on or note-off that leaves notes
\* held, the last stack entry is the most recently pressed note that is
\* still held, and it is the note whose pitch was written to the pitch
\* channel; releasing the sounding note while others are held makes the
\* note pressed before it sound again.
C18_LastNotePriority ==
    [][ /\ (last'.op \in {"note_on", "note_off"}
            /\ (held' # << >> \/ current_stack_size_' > 0)) =>
              /\ current_stack_size_' = Len(held')
              /\ note_stack_'[current_stack_size_' - 1].note
                     = held'[Len(held')]
              /\ out'[1] = DacWrite(cv_channel_,
                                    PitchVolts(held'[Len(held')]))
              /\ dac'[cv_channel_] = PitchVolts(held'[Len(held')])
        /\ (last'.op = "note_off" /\ Len(held) >= 2
            /\ last'.arg = held[Len(held)]) =>
              dac'[cv_channel_] = PitchVolts(held[Len(held) - 1])
      ]_vars

\* on 60, on 64, off 64: note 60 sounds again
C18_Witness ==
    /\ last.op = "note_off" /\ last.arg = 64
    /\ held = <<60>>
    /\ current_stack_size_ = 1 /\ note_stack_[0].note = 60
    /\ gate_on_
    /\ dac[cv_channel_] = PitchVolts(60)

\* C19: latched pitch.  A step that leaves no note held (the release of the
\* last held note, a note-off for a note that is not held, a reset of the
\* stack) leaves the pitch channel and the latched note as they were: the
\* pitch stays that of the note that sounded last, and only an accepted
\* note-on changes it.
C19_LatchedPitch ==
    [][ (current_stack_size_' = 0 \/ held' = << >>) =>
            /\ dac'[cv_channel_] = dac[cv_channel_]
            /\ last_note_'.note = last_note_.note
            /\ held # << >> =>
                  /\ dac'[cv_channel_] = PitchVolts(held[Len(held)])
                  /\ last_note_'.note = held[Len(held)]
      ]_vars

\* every note was released, 60 last; a later note-off for 64, which is not
\* held, left the pitch of note 60 on the output
C19_Witness ==
    /\ last.op = "note_off" /\ last.arg = 64
    /\ held = << >> /\ current_stack_size_ = 0
    /\ ~gate_on_
    /\ last_note_.note = 60
    /\ dac[cv_channel_] = PitchVolts(60)
    /\ out[1] = DacWrite(cv_channel_, PitchVolts(60))

\* C20: capacity.  With 25 distinct notes held, a note-on (velocity above
\* 0) for a note that is not held changes nothing in the stack: the count
\* stays 25, the new note is absent, the 25 notes keep their slots, and the
\* pitch written is that of the 25th note.
C20_FullStackDropsNote ==
    [][ (last'.op = "note_on" /\ last'.data > 0
         /\ Len(held) = kNoteStackSize
         /\ \A i \in 1..Len(held) : held[i] # last'.arg) =>
            /\ current_stack_size_' = kNoteStackSize
            /\ find_note(note_stack_', last'.arg) = -1
            /\ note_stack_' = note_stack_
            /\ \A i \in 1..kNoteStackSize : note_stack_'[i - 1].note = held[i]
            /\ dac'[cv_channel_] = PitchVolts(held[kNoteStackSize])
            /\ last_note_'.note = held[kNoteStackSize]
      ]_vars

\* notes 30..54 are held and the note-on for note 55 was handled
C20_Witness ==
    /\ last.op = "note_on" /\ last.arg = FillFirst + kNoteStackSize
    /\ current_stack_size_ = kNoteStackSize
    /\ note_stack_[0].note = FillFirst
    /\ note_stack_[kNoteStackSize - 1].note = FillFirst + kNoteStackSize - 1
    /\ dac[cv_channel_] = PitchVolts(FillFirst + kNoteStackSize - 1)
    /\ gate_on_

\* C21: note stealing.  With 25 notes held, a note-on (velocity above 0)
\* for a note that is not held removes the oldest held note, appends the
\* new note, and the new note becomes the sounding note.
C21_NoteStealing ==
    [][ (last'.op = "note_on" /\ last'.data > 0
         /\ Len(held) = kNoteStackSize
         /\ \A i \in 1..Len(held) : held[i] # last'.arg) =>
            /\ current_stack_size_' = kNoteStackSize
            /\ find_note(note_stack_', held[1]) = -1
            /\ note_stack_'[kNoteStackSize - 1].note = last'.arg
            /\ \A i \in 2..kNoteStackSize : note_stack_'[i - 2].note = held[i]
            /\ dac'[cv_channel_] = PitchVolts(last'.arg)
      ]_vars

\* C22: after init and any sequence of note-on, note-off and
\* reset_note_stack, no note number appears twice among the held notes of
\* the stack, and the held count is in 0..25.
C22_NoDuplicates ==
    /\ current_stack_size_ \in 0..kNoteStackSize
    /\ \A i, j \in 0..(current_stack_size_ - 1) :
          i # j => note_stack_[i].note # note_stack_[j].note

\* 25 notes are held and the oldest of them was pressed again
C22_Witness ==
    /\ last.op = "note_on" /\ last.data > 0
    /\ current_stack_size_ = kNoteStackSize
    /\ last.arg = note_stack_[0].note

\* C23: a note-on (velocity above 0) for a note that is already held leaves
\* the note stack exactly unchanged (entries, order, stored velocities,
\* count); the note is not moved to the top and the sounding note and its
\* pitch stay the same.
C23_HeldNoteOnIsNoOp ==
    [][ (last'.op = "note_on" /\ last'.data > 0
         /\ find_note(note_stack_, last'.arg) # -1) =>
            /\ note_stack_' = note_stack_
            /\ current_stack_size_' = current_stack_size_
            /\ play_note(Cs') = play_note(Cs)
            /\ dac'[cv_channel_] = PitchVolts(play_note(Cs).note)
      ]_vars

\* a held note that is not on top was pressed again, with a velocity other
\* than the stored one
C23_Witness ==
    /\ last.op = "note_on" /\ last.data > 0
    /\ current_stack_size_ >= 2
    /\ \E i \in 0..(current_stack_size_ - 2) :
          /\ note_stack_[i].note = last.arg
          /\ note_stack_[i].velocity # last.data
    /\ Len(held) = current_stack_size_

\* the notes of the first n slots of a stack, oldest first
StackNotes(stack, n) == [i \in 1..n |-> stack[i - 1].note]

\* C24: a note-off for a note that is not held leaves the stack unchanged; a
\* note-off for a held note removes exactly that note, decrements the count
\* by one and keeps the order (and velocities) of the remaining notes,
\* whether the note was first, in the middle or last.
C24_NoteOffRemovesExactlyThatNote ==
    [][ (last'.op = "note_off" \/ (last'.op = "note_on" /\ last'.data = 0)) =>
            LET idx == find_note(note_stack_, last'.arg)
            IN  IF idx = -1
                THEN /\ note_stack_' = note_stack_
                     /\ current_stack_size_' = current_stack_size_
                ELSE /\ current_stack_size_' = current_stack_size_ - 1
                     /\ \A i \in 0..(kNoteStackSize - 1) :
                           note_stack_'[i] =
                              IF i < idx THEN note_stack_[i]
                              ELSE IF i < current_stack_size_ - 1
                              THEN note_stack_[i + 1]
                              ELSE EmptySlot
                     /\ StackNotes(note_stack_', current_stack_size_') =
                           SelectSeq(StackNotes(note_stack_,
                                                current_stack_size_),
                                     LAMBDA x : x # last'.arg)
      ]_vars

\* the note between two held notes was released: in SpecRelease a key that
\* is neither held nor the next above the newest cannot be released, so the
\* note was held between the two until this note-off
C24_Witness ==
    /\ last.op = "note_off"
    /\ current_stack_size_ = 2
    /\ note_stack_[0].note < last.arg
    /\ last.arg < note_stack_[1].note
    /\ note_stack_[2] = EmptySlot

\* C25: after init and after every note-on, note-off and reset_note_stack,
\* the gate is true iff the held-note count is greater than 0.
C25_GateIffHeld ==
    last.op \in {"init", "note_on", "note_off", "reset_note_stack"} =>
        (gate_on_ <=> current_stack_size_ > 0)

\* C26: the pitch written to the selected CV channel is (n - 24) twelfths of
\* a volt, n being the sounding or latched note: 0 V for note 24, 1 V for
\* 36, 3 V for 60, one twelfth per semitone, and a negative number of
\* twelfths for the notes below 24 (no unsigned wrap-around).
C26_PitchTwelfths ==
    last.op \in {"note_on", "note_off"} =>
        LET n == IF current_stack_size_ > 0
                 THEN note_stack_[current_stack_size_ - 1].note
                 ELSE last_note_.note
            v == dac[cv_channel_]
        IN  /\ out[1] = [sink |-> "dac", ch |-> cv_channel_, v |-> v]
            /\ v.of = "volt" /\ v.den > 0
            /\ v.num * 12 = (n - 24) * v.den
            /\ n = 24 => v.num = 0
            /\ n = 36 => v.num = v.den
            /\ n = 60 => v.num = 3 * v.den
            /\ n < 24 => v.num < 0
            /\ n = last.arg

\* the lowest note sounds, two octaves below the 0 V note
C26_Witness ==
    /\ last.op = "note_on"
    /\ current_stack_size_ = 1
    /\ note_stack_[0].note = 0
    /\ dac[cv_channel_].num < 0

\* C27: releasing all notes does not reset the latched pitch, whereas
\* reset_note_stack empties the held notes and sets the latched note back to
\* the default (note 24, the 0 V reference), so that the next CV update with
\* no note held writes the default pitch.
C27_ResetClearsLatch ==
    [][ /\ (last'.op = "note_off" /\ current_stack_size_ = 1
            /\ current_stack_size_' = 0) =>
               /\ last_note_'.note = note_stack_[0].note
               /\ dac'[cv_channel_] = PitchVolts(note_stack_[0].note)
        /\ last'.op = "reset_note_stack" =>
               /\ current_stack_size_' = 0
               /\ last_note_'.note = kZeroCVMidiNote
               /\ PitchVolts(play_note(Cs').note) = ZeroVolts
      ]_vars

\* C28: after every CV update (a note-on or note-off with CV output
\* enabled) the pitch channel carries the pitch of the sounding or latched
\* note, and the value last written to the other channel is the mod-wheel
\* value in mode kModWheel, the note's velocity in kDefault and the pitch in
\* kUnison.
C28_OtherChannelByMode ==
    (last.op \in {"note_on", "note_off"} /\ cv_enabled_) =>
        LET play == play_note(Cs)
        IN  /\ dac[cv_channel_] = PitchVolts(play.note)
            /\ mode_ = "kModWheel" =>
                  dac[cv_other_channel_] =
                     midi_value_to_voltage(modwheel_value_)
            /\ mode_ = "kDefault" =>
                  dac[cv_other_channel_] =
                     midi_value_to_voltage(play.velocity)
            /\ mode_ = "kUnison" =>
                  dac[cv_other_channel_] = PitchVolts(play.note)

\* C29: the parser's channel filter is always in 1..16: the constructor and
\* set_channel store 1 for 0, 16 for a value above 16 and the value itself
\* otherwise, and no other operation changes the filter.
C29_ChannelFilterInRange ==
    /\ [](channel_filter_ \in 1..16)
    /\ [][ IF last'.op = "set_channel"
           THEN channel_filter_' = IF last'.arg = 0 THEN 1
                                   ELSE IF last'.arg > 16 THEN 16
                                   ELSE last'.arg
           ELSE channel_filter_' = channel_filter_ ]_vars

\* set_channel(17) was called and the filter is 16
C29_Witness ==
    /\ last.op = "set_channel"
    /\ last.arg > 16
    /\ channel_filter_ = 16

\* the positions in the outputs o of the entries for the sink s
SinkAt(o, s) == {i \in 1..Len(o) : o[i].sink = s}

\* C30: on every note-on (velocity above 0) the converter updates the note
\* stack first, then writes the pitch of the note on top of the updated
\* stack (the new note, when it was stored), then sets the gate true, and
\* only then calls the user's note-on callback; with CV output enabled no
\* gate write comes before the pitch write.
C30_NoteOnOrder ==
    [][ (last'.op = "note_on" /\ last'.data > 0) =>
            LET o == out'
                top == note_stack_'[current_stack_size_' - 1]
                stored == /\ find_note(note_stack_, last'.arg) = -1
                          /\ current_stack_size_ < kNoteStackSize
            IN  /\ stored => top = NoteVelocity(last'.arg, last'.data)
                /\ \E g \in 1..Len(o) :
                      /\ SinkAt(o, "gate") = {g}
                      /\ o[g].v = TRUE
                      /\ \A i \in SinkAt(o, "dac") : i < g
                      /\ \A i \in SinkAt(o, "callback") : i > g
                /\ gate_on_'
                /\ IF cv_enabled_
                   THEN /\ o[1] = [sink |-> "dac", ch |-> cv_channel_,
                                   v |-> PitchVolts(top.note)]
                        /\ dac'[cv_channel_] = PitchVolts(top.note)
                   ELSE SinkAt(o, "dac") = {}
                /\ IF "note_on" \in user_callbacks
                   THEN /\ SinkAt(o, "callback") = {Len(o)}
                        /\ o[Len(o)].cb = "note_on"
                        /\ o[Len(o)].note = last'.arg
                        /\ o[Len(o)].velocity = last'.data
                   ELSE SinkAt(o, "callback") = {}
      ]_vars

\* a second note was pressed with CV output enabled and a user callback
\* set: its pitch, the other channel, the gate, the callback
C30_Witness ==
    /\ last.op = "note_on" /\ last.data > 0
    /\ cv_enabled_ /\ "note_on" \in user_callbacks
    /\ current_stack_size_ = 2
    /\ note_stack_[1].note = last.arg
    /\ Len(out) >= 4
    /\ out[1].v = PitchVolts(last.arg)
    /\ out[Len(out) - 1] = GateSet(TRUE)
    /\ out[Len(out)].sink = "callback"

\* the entries handed to the parser by the step, and those of them that
\* are not real-time bytes
FedNow == SeqFrom(stream', Len(stream))
NotRealtime(entries) ==
    SelectSeq(entries, LAMBDA x : x.err \/ x.byte < kRealtimeMin)
\* the events that are not real-time callbacks
MessageEvents(evs) == SelectSeq(evs, LAMBDA x : x.cb # "realtime")

\* C31: no timeout.  While a two-data-byte message is partially received,
\* process_uart() calls that bring nothing or only real-time bytes, however
\* many, leave the partial message as it is and emit no event for it; the
\* missing data bytes complete it whenever they arrive, real-time bytes
\* among them or not.
C31_NoTimeout ==
    [][ (last'.op = "process_uart" /\ MidMessage(Rs)) =>
            LET fed == NotRealtime(FedNow)
            IN  /\ fed = << >> =>
                      /\ UNCHANGED parseVars
                      /\ state_' \in {"AwaitData1", "AwaitData2"}
                      /\ MessageEvents(events') = << >>
                /\ (state_ = "AwaitData1" /\ Len(fed) = 1
                    /\ ~fed[1].err /\ fed[1].byte < 128) =>
                      /\ state_' = "AwaitData2"
                      /\ data_'[0] = fed[1].byte
                      /\ current_status_' = current_status_
                      /\ MessageEvents(events') = << >>
                /\ (state_ = "AwaitData2" /\ Len(fed) = 1
                    /\ ~fed[1].err /\ fed[1].byte < 128) =>
                      /\ state_' = "Idle"
                      /\ MessageEvents(events') =
                            Reaches(MessageEvent(current_status_, data_[0],
                                                 fed[1].byte))
                /\ (state_ = "AwaitData1" /\ Len(fed) = 2
                    /\ ~fed[1].err /\ fed[1].byte < 128
                    /\ ~fed[2].err /\ fed[2].byte < 128) =>
                      /\ state_' = "Idle"
                      /\ MessageEvents(events') =
                            Reaches(MessageEvent(current_status_,
                                                 fed[1].byte, fed[2].byte))
      ]_vars

\* [0x90, 60 | 0xF8 | 60]: the message was left pending by its call, a
\* later call brought a real-time byte, and the call after that the last
\* data byte
C31_Witness ==
    /\ last.op = "process_uart"
    /\ stream = <<UartEntry(144), UartEntry(60), UartEntry(248),
                  UartEntry(60)>>
    /\ events = <<Ev("note_on", 60, 60, 1)>>
    /\ log = <<Ev("realtime", 248, NoByte, NoByte), Ev("note_on", 60, 60, 1)>>
    /\ read_index_ = 4

\* C32: a channel status byte received in AwaitData1 or AwaitData2 discards
\* the partial message without any callback and starts the new message;
\* every event emitted is that of the last status byte received and of a
\* pair of data bytes received after it, never of a data byte received
\* before it.
C32_StatusDiscardsPartial ==
    /\ [][ (last'.op = "parse" /\ last'.arg \in 128..239
            /\ state_ \in {"AwaitData1", "AwaitData2"}) =>
               /\ events' = << >>
               /\ log' = log
               /\ current_status_' = last'.arg
               /\ running_status_' = last'.arg
               /\ state_' = "AwaitData1"
         ]_vars
    /\ [](events # << >> =>
             LET n == Len(stream)
                 statusAt == {i \in 1..n : stream[i].byte \in 128..239}
             IN  /\ statusAt # {}
                 /\ LET k == CHOOSE i \in statusAt :
                                 \A j \in statusAt : j <= i
                    IN  /\ k <= n - 2
                        /\ (n - k) % 2 = 0
                        /\ events = <<MessageEvent(stream[k].byte,
                                                   stream[n - 1].byte,
                                                   stream[n].byte)>>)

\* [0x90, 60, 0x80, 61, 0]: the note-off status byte came after the first
\* data byte of a note-on; nothing was invoked until the second data byte
\* after it completed note_off(61, 0, 1), the only callback of the stream,
\* and 60, received before the note-off status byte, is in no event
C32_Witness ==
    /\ stream = <<UartEntry(144), UartEntry(60), UartEntry(128),
                  UartEntry(61), UartEntry(0)>>
    /\ events = <<Ev("note_off", 61, 0, 1)>>
    /\ log = <<Ev("note_off", 61, 0, 1)>>
    /\ state_ = "Idle"
    /\ current_status_ = 128
    /\ running_status_ = 128

\* C33: a data byte received in Idle while no running status is
\* established (after construction, reset() or a system-common byte)
\* invokes no callback and leaves the parser in Idle with the running
\* status still unset; data bytes alone, however many, never produce an
\* event from there.
C33_DataWithoutStatus ==
    /\ [][ (last'.op = "parse" /\ last'.arg < 128
            /\ state_ = "Idle" /\ running_status_ = 0) =>
               /\ events' = << >>
               /\ UNCHANGED parseVars
         ]_vars
    /\ []((FedData /\ rs_S = 0) =>
             /\ events = << >>
             /\ state_ = "Idle"
             /\ running_status_ = 0)

\* two data bytes or more were fed to a parser just constructed, with
\* every callback set and omni on
C33_Witness ==
    /\ FedData /\ rs_S = 0 /\ rs_n >= 2
    /\ rs_cut.by = "new"
    /\ callbacks = CallbackNames /\ omni_mode_
    /\ events = << >> /\ state_ = "Idle" /\ running_status_ = 0

\* C34: a channel status byte of an unsupported type (0xAn, 0xCn, 0xDn)
\* invokes no callback, and no data byte that follows it invokes one until
\* the next status byte; no event is built from the data of earlier
\* messages.
C34_UnsupportedIsSilent ==
    /\ (last.op = "parse" /\ (last.arg \div 16) \in {10, 12, 13}) =>
          events = << >>
    /\ (FedData /\ (rs_S \div 16) \in {10, 12, 13}) =>
          events = << >>

\* an unsupported status byte was parsed while data_ held the two data
\* bytes 60, 100 received before it: process_message ran at once and
\* invoked nothing
C34_Witness ==
    /\ last.op = "parse" /\ (last.arg \div 16) \in {10, 12, 13}
    /\ running_status_ = last.arg
    /\ state_ = "Idle"
    /\ data_[0] = 60 /\ data_[1] = 100
    /\ events = << >>

\* C35: resynchronisation.  In every reachable parser state a status byte
\* of a supported type is taken as the start of a message, and with the two
\* data bytes d1, d2 that follow it invokes exactly the callback of
\* [status, d1, d2] (none if its channel is filtered out) and leaves the
\* parser in Idle with that status as running status; and in every
\* reachable state parse() takes every byte value 0..255 and leaves the
\* parser in one of its three states.
C35_Resynchronisation ==
    /\ [][ (last'.op = "parse" /\ last'.arg \in 128..239
            /\ TwoDataStatus(last'.arg)) =>
               /\ state_' = "AwaitData1"
               /\ current_status_' = last'.arg
               /\ events' = << >>
         ]_vars
    /\ []((FedData /\ TwoDataStatus(rs_S) /\ rs_n = 2) =>
             /\ events = Reaches(MessageEvent(rs_S, rs_prev, last.arg))
             /\ Len(events) = IF (rs_S % 16) + 1 = channel_filter_
                              THEN 1 ELSE 0
             /\ state_ = "Idle"
             /\ running_status_ = rs_S)
    /\ [](\A byte \in 0..U8Max :
             /\ ENABLED parse(byte)
             /\ parse_fields(Ps, byte).state \in
                   {"Idle", "AwaitData1", "AwaitData2"})

\* [0xB0, 60, 0] was fed after whatever came before and came out as one
\* control-change callback; the parser is in Idle with 0xB0 as running
\* status
C35_Witness ==
    /\ FedData /\ rs_S = kControlChangeMask /\ rs_n = 2
    /\ events = <<Ev("control_change", 60, 0, 1)>>
    /\ state_ = "Idle" /\ running_status_ = kControlChangeMask

\* C36: process_uart() returns with the ring buffer empty, having passed
\* every byte it accepted to parse() exactly once and in order; of a run
\* longer than the 119 bytes the buffer takes, the first 119 are accepted
\* and parsed in order and the rest are dropped.  With runs of note-on
\* messages [0x90, 60, 100]: a call given n bytes stores the first
\* min(n, 119) of them, emits one note-on event for every three stored
\* bytes and leaves the parser where the last stored byte puts it; its two
\* loops come to an end with the buffer empty for every run.
C36_ProcessUartDrains ==
    /\ [](uart_initialized_ =>
              /\ read_index_ = write_index_
              /\ \A n \in OverflowLengths :
                     rb_is_empty(uart_parse_loop(uart_read_loop(
                         [rb |-> Rb, ps |-> Ps, rs |-> Rs, evs |-> << >>],
                         Chunk(n))).rb))
    /\ [][ \A n \in OverflowLengths :
             (uart_initialized_ /\ process_uart(Chunk(n))) =>
               LET k == IF n < buffer_size_ THEN n ELSE buffer_size_ - 1
                   stored == [i \in 1..k |->
                       data_buffer_'[(write_index_ + i - 1) % buffer_size_]]
               IN  /\ write_index_' = (write_index_ + k) % buffer_size_
                   /\ read_index_' = write_index_'
                   /\ stored = [i \in 1..k |-> Chunk(n)[i].byte]
                   /\ \A i \in 0..(buffer_size_ - 1) :
                          (i - write_index_) % buffer_size_ >= k =>
                              data_buffer_'[i] = data_buffer_[i]
                   /\ events' = [i \in 1..(k \div 3) |->
                                     Ev("note_on", 60, 100, 1)]
                   /\ k % 3 = 0 /\ k > 0 => state_' = "Idle"
                   /\ k % 3 = 1 => state_' = "AwaitData1"
                   /\ k % 3 = 2 => state_' = "AwaitData2" /\ data_'[0] = 60
                   /\ k = 0 => UNCHANGED <<rbVars, parseVars>>
      ]_vars

\* one call was given 121 bytes with the buffer empty at index 0: 119 were
\* stored and parsed, which makes 39 note-on events and leaves the 40th
\* message one byte short, and the last two bytes were dropped: the last
\* cell still holds what the memory held before the parser was constructed
C36_Witness ==
    /\ last.op = "process_uart"
    /\ write_index_ = kBufferSize - 1 /\ read_index_ = write_index_
    /\ data_buffer_[kBufferSize - 2] = 60
    /\ data_buffer_[kBufferSize - 1] = Indeterminate
    /\ Len(events) = 39
    /\ state_ = "AwaitData2" /\ data_[0] = 60

\* C37: a note-off for a held note that is not the last stack entry, other
\* notes staying held, changes neither the pitch on the pitch channel nor
\* the gate; a note-off for a note that is not in the stack changes neither
\* the stack, nor the pitch, nor the gate.
C37_SilentRelease ==
    [][ last'.op = "note_off" =>
            LET note == last'.arg
                at == {i \in 0..(current_stack_size_ - 1) :
                          note_stack_[i].note = note}
            IN  /\ (at # {} /\ current_stack_size_ >= 2
                    /\ note_stack_[current_stack_size_ - 1].note # note) =>
                      /\ dac'[cv_channel_] = dac[cv_channel_]
                      /\ gate_on_' = gate_on_
                /\ at = {} =>
                      /\ UNCHANGED <<note_stack_, current_stack_size_>>
                      /\ dac'[cv_channel_] = dac[cv_channel_]
                      /\ gate_on_' = gate_on_
      ]_vars

\* C38: no stuck gate across a channel change.  A note-off received on
\* channel 1, the channel on which every held note was accepted, takes the
\* note out of the stack, whatever set_midi_channel() calls came in between;
\* when it was the last held note the stack is empty and the gate is low.
C38_NoStuckGate ==
    [][ \A note \in ChannelNotes :
          update(<<UartEntry(kNoteOffMask), UartEntry(note),
                   UartEntry(64)>>) =>
              /\ find_note(note_stack_', note) = -1
              /\ (\A i \in 0..(current_stack_size_ - 1) :
                      note_stack_[i].note = note) =>
                    /\ current_stack_size_' = 0
                    /\ ~gate_on_'
      ]_vars

\* C39: sentinel/count consistency of the note stack.  The slots below
\* current_stack_size_ hold notes in 0..127 and the slots from it on hold
\* the sentinel 255; find_note returns i exactly when the note is stored at
\* slot i below current_stack_size_, and -1 exactly when it is stored at no
\* such slot, also when the stack is full and holds no sentinel.
C39_SentinelCount ==
    /\ current_stack_size_ \in 0..kNoteStackSize
    /\ \A i \in 0..(kNoteStackSize - 1) :
          IF i < current_stack_size_
          THEN note_stack_[i].note \in 0..kDataMask
          ELSE note_stack_[i].note = U8Max
    /\ \A note \in 0..kDataMask :
          LET found == find_note(note_stack_, note)
              at == {i \in 0..(current_stack_size_ - 1) :
                        note_stack_[i].note = note}
          IN  /\ found # -1 => at = {found}
              /\ found = -1 => at = {}

\* the 26th key was pressed on a full stack: no slot holds the sentinel,
\* and find_note ran through all 25 slots without finding the note
C39_Witness ==
    /\ last.op = "note_on" /\ last.arg = FillFirst + kNoteStackSize
    /\ current_stack_size_ = kNoteStackSize
    /\ \A i \in 0..(kNoteStackSize - 1) : note_stack_[i].note # U8Max
    /\ find_note(note_stack_, last.arg) = -1
    /\ find_note(note_stack_, FillFirst + kNoteStackSize - 1)
           = kNoteStackSize - 1

\* C40: in AwaitData1 and AwaitData2, expected_data_bytes_ is 2 and
\* current_status_ is a status byte of a two-data-byte type (note-off,
\* note-on, control-change or pitch-bend); expected_data_bytes_ is 0 in
\* Idle only.
C40_AwaitingExpectsTwo ==
    /\ state_ \in {"AwaitData1", "AwaitData2"} =>
          /\ expected_data_bytes_ = 2
          /\ is_status_byte(current_status_)
          /\ get_status_type(current_status_) \in
                 {kNoteOffMask, kNoteOnMask, kControlChangeMask,
                  kPitchBendMask}
    /\ expected_data_bytes_ = 0 => state_ = "Idle"

====
